---- MODULE Spec2Model ----
(***************************************************************************)
(* Workflow engine of th_academy (backend/server.py): contracts, contract  *)
(* documents and payments ("cuentas de cobro"), gated by the role          *)
(* hierarchy of services/auth_service.py.                                  *)
(*                                                                         *)
(* Entity collections (users, contracts, documents, payments) are kept in  *)
(* full.  For db.notifications, db.audit_logs and the outbound mail the    *)
(* model keeps the records inserted by the call answered last             *)
(* (new_notifications, new_audit_logs, sent_emails): an empty list is a    *)
(* call that inserted nothing.  db_notifications is the oldest part of     *)
(* db.notifications, in insertion order, with the read flag of each        *)
(* record.  response is the HTTP answer of the call answered last.         *)
(* degraded is the set of outbound dependencies that currently fail: the   *)
(* mail gateway ("email") and the audit collection ("audit").              *)
(***************************************************************************)
EXTENDS Integers, Sequences, FiniteSets, TLC

VARIABLES users, contracts, documents, payments,
          new_notifications, new_audit_logs, sent_emails, response, inflight,
          degraded, db_notifications

vars == <<users, contracts, documents, payments,
          new_notifications, new_audit_logs, sent_emails, response, inflight,
          degraded, db_notifications>>

entities == <<users, contracts, documents, payments>>

None == "None"
Unset == "Unset"

-----------------------------------------------------------------------------
(* The enumerations of models.py and the document lists of server.py *)

UserRole == {"superadmin", "admin", "legal_rep", "accountant", "collaborator"}

ContractStatus == {"draft", "pending_documents", "under_review", "pending_approval",
                   "approved", "pending_signature", "signed", "active",
                   "completed", "cancelled"}

DocumentType == {"cedula", "rut", "soportes_laborales", "soportes_educativos",
                 "cert_bancaria", "antecedentes", "tarjeta_entrenador",
                 "hoja_vida", "propuesta_trabajo"}

DocumentStatus == {"pending", "uploaded", "under_review", "approved", "rejected",
                   "expired"}

PaymentStatus == {"draft", "pending_approval", "approved", "paid", "rejected",
                  "cancelled"}

REQUIRED_DOCUMENTS == {"cedula", "rut", "cert_bancaria", "antecedentes",
                       "hoja_vida", "propuesta_trabajo"}

OPTIONAL_DOCUMENTS == {"soportes_laborales", "soportes_educativos",
                       "tarjeta_entrenador"}

-----------------------------------------------------------------------------
(* services/auth_service.py *)

role_hierarchy(r) ==
    CASE r = "superadmin"   -> 5
      [] r = "admin"        -> 4
      [] r = "legal_rep"    -> 3
      [] r = "accountant"   -> 2
      [] r = "collaborator" -> 1
      [] OTHER              -> 0

has_permission_strict(user_role, required_role) ==
    role_hierarchy(user_role) > role_hierarchy(required_role)

has_permission_inverted(user_role, required_role) ==
    role_hierarchy(user_role) <= role_hierarchy(required_role)

has_permission(user_role, required_role) ==
    role_hierarchy(user_role) >= role_hierarchy(required_role)

-----------------------------------------------------------------------------
(* The users of seed_data.py: one per staff role and two collaborators. *)

SeedUsers ==
    [u \in {"sa", "ad", "lr", "ac", "co1", "co2"} |->
        [role |-> CASE u = "sa" -> "superadmin"
                    [] u = "ad" -> "admin"
                    [] u = "lr" -> "legal_rep"
                    [] u = "ac" -> "accountant"
                    [] OTHER    -> "collaborator",
         is_active |-> TRUE]]

UserIds == DOMAIN SeedUsers

get_current_user_any(actor) == actor \in DOMAIN users

(* get_current_user: the token names an existing, active user. *)
get_current_user(actor) ==
    actor \in DOMAIN users /\ users[actor].is_active

(* require_role(required_role) applied to an authenticated actor. *)
require_role(actor, required_role) ==
    has_permission(users[actor].role, required_role)

UsersWithRole(r) == {u \in DOMAIN users : users[u].role = r}

RECURSIVE SetToSeq(_)
SetToSeq(S) ==
    IF S = {} THEN <<>>
    ELSE LET x == CHOOSE y \in S : TRUE IN <<x>> \o SetToSeq(S \ {x})

NotifyRole_everyone(r, type) ==
    LET us == SetToSeq(DOMAIN users)
    IN [i \in 1..Len(us) |-> [user_id |-> us[i], notification_type |-> type]]

(* One notification per user of a role (find({"role": r}) then a loop). *)
NotifyRole(r, type) ==
    LET us == SetToSeq(UsersWithRole(r))
    IN [i \in 1..Len(us) |-> [user_id |-> us[i], notification_type |-> type]]

Notification(u, type) == [user_id |-> u, notification_type |-> type]

Email(u, kind) == [recipient |-> u, kind |-> kind]

EmailRole(r, kind) ==
    LET us == SetToSeq(UsersWithRole(r))
    IN [i \in 1..Len(us) |-> Email(us[i], kind)]

AuditLog(actor, action, resource_type, resource_id) ==
    [user_id |-> actor, action |-> action,
     resource_type |-> resource_type, resource_id |-> resource_id]

Response(op, code) == [op |-> op, code |-> code]

(* The model keeps the first MaxNotifications records of db.notifications. *)
MaxNotifications == 2

Oldest(collection) ==
    SubSeq(collection, 1, IF Len(collection) < MaxNotifications
                          THEN Len(collection) ELSE MaxNotifications)

(* db.notifications.insert_one({..., "read": False, ...}) for each
   notification of a call. *)
insert_one(collection, notifications) ==
    Oldest(collection \o [i \in 1..Len(notifications) |->
                            [user_id |-> notifications[i].user_id,
                             notification_type |-> notifications[i].notification_type,
                             read |-> FALSE]])

(* A call that raised HTTPException before any write. *)
Fail(op, code) ==
    /\ response' = Response(op, code)
    /\ new_notifications' = <<>>
    /\ new_audit_logs' = <<>>
    /\ sent_emails' = <<>>
    /\ UNCHANGED <<entities, inflight, degraded, db_notifications>>

(* services/audit_service.py, AuditService.log: the insert is inside a
   try/except that logs the exception and returns. *)
audit_service_log(audit_logs) ==
    IF "audit" \in degraded THEN <<>> ELSE audit_logs

(* services/email_service.py, EmailService.send_email: an exception of the
   gateway is caught and the method returns False; no caller reads it. *)
send_email(emails) ==
    IF "email" \in degraded THEN <<>> ELSE emails

(* services/storage_service.py, StorageService.upload_file: the stored
   file's id, or None when the write failed ("if not result" in the callers). *)
upload_failed_never(stored) == FALSE

upload_failed(stored) == stored = None

(* The first of the dependencies that fails: 401, then 403; 0 when none. *)
Depends(actor, required_role) ==
    IF ~get_current_user(actor) THEN 401
    ELSE IF required_role # None /\ ~require_role(actor, required_role) THEN 403
    ELSE 0

Reply_propagating(op, code, notifications, audit_logs, emails) ==
    /\ response' = Response(op, IF degraded = {} THEN code ELSE 500)
    /\ new_notifications' = notifications
    /\ new_audit_logs' = audit_service_log(audit_logs)
    /\ sent_emails' = send_email(emails)
    /\ db_notifications' = insert_one(db_notifications, notifications)
    /\ UNCHANGED degraded

(* A call that ran to its return statement: its answer and what it inserted. *)
Reply(op, code, notifications, audit_logs, emails) ==
    /\ response' = Response(op, code)
    /\ new_notifications' = notifications
    /\ new_audit_logs' = audit_service_log(audit_logs)
    /\ sent_emails' = send_email(emails)
    /\ db_notifications' = insert_one(db_notifications, notifications)
    /\ UNCHANGED degraded

-----------------------------------------------------------------------------
(* Users.  A user is named by its e-mail address, which register keeps     *)
(* unique; the model keeps the role and the is_active flag.  An optional   *)
(* is_active of a request body is <<b>>, or <<>> when the body leaves the  *)
(* field out.                                                              *)

(* POST /api/auth/register: no dependency; is_active defaults to True. *)
register(email, role, is_active) ==
    IF role \notin UserRole THEN Fail("register", 422)
    ELSE IF email \in DOMAIN users THEN Fail("register", 400)
    ELSE /\ users' = users @@
                (email :> [role |-> role,
                           is_active |-> IF is_active = <<>> THEN TRUE
                                         ELSE is_active[1]])
         /\ Reply("register", 201, <<>>, <<>>, <<>>)
         /\ UNCHANGED <<contracts, documents, payments, inflight>>

(* POST /api/auth/login.  Every account has the password "secret";
   verify_password compares the submitted one with it.  A successful login
   returns a token and writes nothing. *)
verify_password(plain_password) == plain_password = "secret"

login(email, password) ==
    IF email \notin DOMAIN users THEN Fail("login", 401)
    ELSE IF ~verify_password(password) THEN Fail("login", 401)
    ELSE IF ~users[email].is_active THEN Fail("login", 401)
    ELSE /\ Reply("login", 200, <<>>, <<>>, <<>>)
         /\ UNCHANGED <<entities, inflight>>

(* PUT /api/users/{user_id}; is_active is the field of UserUpdate the model
   keeps. *)
update_user(actor, user_id, is_active) ==
    LET dep == Depends(actor, "admin")
    IN  IF dep # 0 THEN Fail("update_user", dep)
        ELSE IF is_active = <<>> THEN Fail("update_user", 400)
        ELSE IF user_id \notin DOMAIN users THEN Fail("update_user", 404)
        ELSE /\ users' = [users EXCEPT ![user_id].is_active = is_active[1]]
             /\ Reply("update_user", 200, <<>>, <<>>, <<>>)
             /\ UNCHANGED <<contracts, documents, payments, inflight>>

(* DELETE /api/users/{user_id}: a soft delete. *)
OpenContractStatus == {"active", "pending_documents", "under_review",
                       "pending_approval", "approved"}

active_contracts(user_id) ==
    Cardinality({c \in DOMAIN contracts :
                    /\ contracts[c].collaborator_id = user_id
                    /\ contracts[c].status \in OpenContractStatus})

delete_user(actor, user_id) ==
    LET dep == Depends(actor, "superadmin")
    IN  IF dep # 0 THEN Fail("delete_user", dep)
        ELSE IF user_id = actor THEN Fail("delete_user", 400)
        ELSE IF user_id \notin DOMAIN users THEN Fail("delete_user", 404)
        ELSE IF active_contracts(user_id) > 0 THEN Fail("delete_user", 400)
        ELSE /\ users' = [users EXCEPT ![user_id].is_active = FALSE]
             /\ Reply("delete_user", 200,
                      <<>>,
                      <<AuditLog(actor, "delete_user", "user", user_id)>>,
                      <<>>)
             /\ UNCHANGED <<contracts, documents, payments, inflight>>

(* POST /api/users: the welcome mail is sent inside a try/except. *)
create_user(actor, email, role) ==
    LET dep == Depends(actor, "admin")
    IN  IF dep # 0 THEN Fail("create_user", dep)
        ELSE IF role \notin UserRole THEN Fail("create_user", 422)
        ELSE IF role = "superadmin" /\ users[actor].role # "superadmin"
        THEN Fail("create_user", 403)
        ELSE IF email \in DOMAIN users THEN Fail("create_user", 400)
        ELSE /\ users' = users @@ (email :> [role |-> role, is_active |-> TRUE])
             /\ Reply("create_user", 201,
                      <<>>,
                      <<AuditLog(actor, "create_user", "user", email)>>,
                      <<Email(email, "welcome")>>)
             /\ UNCHANGED <<contracts, documents, payments, inflight>>

-----------------------------------------------------------------------------
(* Generated identifiers (uuid4): the first unused one of a finite pool. *)

MaxContracts == 1
MaxDuplicates == 2

ContractIds == 1..MaxContracts

NewContractId == CHOOSE id \in ContractIds \ DOMAIN contracts :
                    \A other \in ContractIds \ DOMAIN contracts : id <= other

DocumentIds == ContractIds \X DocumentType \X (1..MaxDuplicates)

DocsOf(docs, contract_id, document_type) ==
    {d \in DOMAIN docs : d[1] = contract_id /\ d[2] = document_type}

NewDocumentId(contract_id, document_type) ==
    <<contract_id, document_type,
      Cardinality(DocsOf(documents, contract_id, document_type)) + 1>>

(* find_one({"contract_id": .., "document_type": ..}): the oldest match. *)
FindDocument(docs, contract_id, document_type) ==
    LET found == DocsOf(docs, contract_id, document_type)
    IN IF found = {} THEN None
       ELSE CHOOSE d \in found : \A e \in found : d[3] <= e[3]

IsForeignCollaborator_never(actor, contract) == FALSE

IsForeignCollaborator(actor, contract) ==
    users[actor].role = "collaborator" /\ contract.collaborator_id # actor

-----------------------------------------------------------------------------
(* POST /api/contracts *)

create_contract(actor, collaborator_id) ==
    LET dep == Depends(actor, "legal_rep")
        found == collaborator_id \in DOMAIN users
                 /\ users[collaborator_id].role = "collaborator"
    IN  IF dep # 0 THEN Fail("create_contract", dep)
        ELSE IF ~found THEN Fail("create_contract", 404)
        ELSE /\ ContractIds \ DOMAIN contracts # {}
             /\ contracts' = contracts @@
                    (NewContractId :> [status |-> "pending_documents",
                                       collaborator_id |-> collaborator_id,
                                       approved_by |-> None,
                                       contract_file_id |-> None,
                                       signed_file_id |-> None,
                                       notes |-> None])
             /\ Reply("create_contract", 201,
                      <<Notification(collaborator_id, "contract_created")>>,
                      <<AuditLog(actor, "create_contract", "contract", NewContractId)>>,
                      <<Email(collaborator_id, "contract_created")>>)
             /\ UNCHANGED <<users, documents, payments, inflight>>

-----------------------------------------------------------------------------
(* PUT /api/contracts/{contract_id}.  A request body gives every field it
   carries a value and Unset to the others; notes stands for the seven
   fields of ContractUpdate. *)

ContractUpdate_any(body) == {f \in DOMAIN body : body[f] # Unset}

(* model_dump(exclude_unset=True) of the ContractUpdate parsed from body:
   the declared fields the body carries. *)
ContractUpdate(body) == {f \in {"notes"} : body[f] # Unset}

update_contract(actor, contract_id, body) ==
    LET dep == Depends(actor, "legal_rep")
        update_data == ContractUpdate(body)
    IN  IF dep # 0 THEN Fail("update_contract", dep)
        ELSE IF update_data = {} THEN Fail("update_contract", 400)
        ELSE IF contract_id \notin DOMAIN contracts THEN Fail("update_contract", 404)
        ELSE /\ contracts' = [contracts EXCEPT ![contract_id] =
                    [f \in DOMAIN @ |-> IF f \in update_data THEN body[f] ELSE @[f]]]
             /\ Reply("update_contract", 200,
                      <<>>,
                      <<AuditLog(actor, "update_contract", "contract", contract_id)>>,
                      <<>>)
             /\ UNCHANGED <<users, documents, payments, inflight>>

-----------------------------------------------------------------------------
(* POST /api/contracts/{contract_id}/review *)

review_contract_guard_any(status) == TRUE

review_contract_guard(status) == status = "under_review"

review_contract(actor, contract_id) ==
    LET dep == Depends(actor, "admin")
    IN  IF dep # 0 THEN Fail("review_contract", dep)
        ELSE IF contract_id \notin DOMAIN contracts THEN Fail("review_contract", 404)
        ELSE IF ~review_contract_guard(contracts[contract_id].status)
             THEN Fail("review_contract", 400)
        ELSE /\ contracts' = [contracts EXCEPT ![contract_id].status = "pending_approval"]
             /\ Reply("review_contract", 200,
                      NotifyRole("legal_rep", "contract_pending_approval"),
                      <<AuditLog(actor, "review_contract", "contract", contract_id)>>,
                      EmailRole("legal_rep", "contract_pending_approval"))
             /\ UNCHANGED <<users, documents, payments, inflight>>

-----------------------------------------------------------------------------
(* POST /api/contracts/{contract_id}/approve                               *)
(* file is "missing" when the multipart field File(...) is absent; stored  *)
(* is the id storage_service.upload_file returned, None when it failed.    *)

file_optional(file) == FALSE

(* file: UploadFile = File(...): a request without the field is refused. *)
file_required(file) == file = "missing"

approve_contract_guard(status) == status = "pending_approval"

approve_contract_patch_no_approver(contract, actor, stored) ==
    [contract EXCEPT !.status = "approved", !.contract_file_id = stored]

approve_contract_patch_no_file(contract, actor, stored) ==
    [contract EXCEPT !.status = "approved", !.approved_by = actor]

approve_contract_patch(contract, actor, stored) ==
    [contract EXCEPT !.status = "approved",
                     !.approved_by = actor,
                     !.contract_file_id = stored]

approve_contract(actor, contract_id, file, stored) ==
    LET dep == Depends(actor, "legal_rep")
    IN  IF dep # 0 THEN Fail("approve_contract", dep)
        ELSE IF file_required(file) THEN Fail("approve_contract", 422)
        ELSE IF contract_id \notin DOMAIN contracts THEN Fail("approve_contract", 404)
        ELSE IF ~approve_contract_guard(contracts[contract_id].status)
             THEN Fail("approve_contract", 400)
        ELSE IF upload_failed(stored) THEN Fail("approve_contract", 500)
        ELSE /\ contracts' = [contracts EXCEPT ![contract_id] =
                                 approve_contract_patch(@, actor, stored)]
             /\ Reply("approve_contract", 200,
                      <<Notification(contracts[contract_id].collaborator_id,
                                     "contract_approved")>>,
                      <<AuditLog(actor, "approve_contract", "contract", contract_id)>>,
                      <<Email(contracts[contract_id].collaborator_id,
                              "contract_approved")>>)
             /\ UNCHANGED <<users, documents, payments, inflight>>

-----------------------------------------------------------------------------
(* POST /api/contracts/{contract_id}/upload-signed *)

upload_signed_guard_any(status) == TRUE

upload_signed_guard(status) == status \in {"approved", "pending_signature"}

upload_signed_contract(actor, contract_id, file, stored) ==
    LET dep == Depends(actor, None)
    IN  IF dep # 0 THEN Fail("upload_signed_contract", dep)
        ELSE IF file = "missing" THEN Fail("upload_signed_contract", 422)
        ELSE IF contract_id \notin DOMAIN contracts
             THEN Fail("upload_signed_contract", 404)
        ELSE IF IsForeignCollaborator(actor, contracts[contract_id])
             THEN Fail("upload_signed_contract", 403)
        ELSE IF ~upload_signed_guard(contracts[contract_id].status)
             THEN Fail("upload_signed_contract", 400)
        ELSE IF upload_failed(stored) THEN Fail("upload_signed_contract", 500)
        ELSE /\ contracts' = [contracts EXCEPT ![contract_id].status = "active",
                                               ![contract_id].signed_file_id = stored]
             /\ Reply("upload_signed_contract", 200,
                      <<>>,
                      <<AuditLog(actor, "upload_signed_contract", "contract",
                                 contract_id)>>,
                      <<>>)
             /\ UNCHANGED <<users, documents, payments, inflight>>

-----------------------------------------------------------------------------
(* POST /api/contracts/{contract_id}/documents *)

(* {doc["document_type"] for doc in docs} of one contract *)
uploaded_types(docs, contract_id) ==
    {d[2] : d \in {e \in DOMAIN docs : e[1] = contract_id}}

required_complete_by_count(docs, contract_id) ==
    Cardinality(uploaded_types(docs, contract_id)) >= Cardinality(REQUIRED_DOCUMENTS)

(* required_types.issubset(uploaded_types) *)
required_complete(docs, contract_id) ==
    REQUIRED_DOCUMENTS \subseteq uploaded_types(docs, contract_id)

(* GET /api/contracts/{contract_id}/documents: doc_map keeps, of the
   documents found for a type, the one the cursor returns last. *)
doc_map(docs, contract_id) ==
    [t \in uploaded_types(docs, contract_id) |->
        LET found == DocsOf(docs, contract_id, t)
        IN docs[CHOOSE d \in found : \A e \in found : d[3] >= e[3]]]

all_required_approved(docs, contract_id) ==
    \A doc_type \in REQUIRED_DOCUMENTS :
        /\ doc_type \in DOMAIN doc_map(docs, contract_id)
        /\ doc_map(docs, contract_id)[doc_type].status = "approved"

can_approve_contract(docs, contract_id) == all_required_approved(docs, contract_id)

upload_write_keep_review(docs, existing, new_id, contract_id, document_type, stored) ==
    IF existing # None
    THEN [docs EXCEPT ![existing].file_id = stored]
    ELSE docs @@ (new_id :> [contract_id |-> contract_id,
                             document_type |-> document_type,
                             file_id |-> stored,
                             status |-> "uploaded",
                             reviewed_by |-> None,
                             review_notes |-> None])

(* The document collection after the update_one / insert_one of the upload. *)
upload_write(docs, existing, new_id, contract_id, document_type, stored) ==
    IF existing # None
    THEN [docs EXCEPT ![existing].file_id = stored,
                      ![existing].status = "uploaded",
                      ![existing].review_notes = None,
                      ![existing].reviewed_by = None]
    ELSE docs @@ (new_id :> [contract_id |-> contract_id,
                             document_type |-> document_type,
                             file_id |-> stored,
                             status |-> "uploaded",
                             reviewed_by |-> None,
                             review_notes |-> None])

upload_contract_document(actor, contract_id, document_type, file, stored) ==
    LET dep == Depends(actor, None)
        existing == FindDocument(documents, contract_id, document_type)
        new_id == NewDocumentId(contract_id, document_type)
        doc_id == IF existing # None THEN existing ELSE new_id
        docs == upload_write(documents, existing, new_id, contract_id,
                             document_type, stored)
    IN  IF dep # 0 THEN Fail("upload_contract_document", dep)
        ELSE IF file = "missing" \/ document_type \notin DocumentType
             THEN Fail("upload_contract_document", 422)
        ELSE IF contract_id \notin DOMAIN contracts
             THEN Fail("upload_contract_document", 404)
        ELSE IF IsForeignCollaborator(actor, contracts[contract_id])
             THEN Fail("upload_contract_document", 403)
        ELSE IF upload_failed(stored) THEN Fail("upload_contract_document", 500)
        ELSE /\ doc_id \in DocumentIds
             /\ documents' = docs
             /\ contracts' =
                    IF contracts[contract_id].status = "pending_documents"
                       /\ required_complete(docs, contract_id)
                    THEN [contracts EXCEPT ![contract_id].status = "under_review"]
                    ELSE contracts
             /\ Reply("upload_contract_document", 201,
                      NotifyRole("admin", "document_uploaded"),
                      <<AuditLog(actor, "upload_contract_document", "document",
                                 doc_id)>>,
                      <<>>)
             /\ UNCHANGED <<users, payments, inflight>>

-----------------------------------------------------------------------------
(* PUT /api/documents/{document_id}/review                                 *)
(* update_status and update_notes are the fields of DocumentUpdate; Unset  *)
(* is a field the request body leaves out (model_dump(exclude_unset)).     *)

review_write(doc, actor, update_status, update_notes) ==
    [doc EXCEPT !.status = IF update_status = Unset THEN @ ELSE update_status,
                !.review_notes = IF update_notes = Unset THEN @ ELSE update_notes,
                !.reviewed_by = actor]

(* sum(1 for doc in docs if doc type is required and doc status is approved) *)
approved_required(docs, contract_id) ==
    Cardinality({d \in DOMAIN docs : /\ d[1] = contract_id
                                     /\ d[2] \in REQUIRED_DOCUMENTS
                                     /\ docs[d].status = "approved"})

cascade_guard_any(status) == TRUE

cascade_guard(status) == status = "under_review"

cascade_no_count(docs, contract, update_status) ==
    /\ update_status = "approved"
    /\ cascade_guard(contract.status)

(* The contract moves on and the "Documentos Completos" mail is sent. *)
cascade(docs, contract, update_status) ==
    /\ update_status = "approved"
    /\ approved_required(docs, contract.id) >= Cardinality(REQUIRED_DOCUMENTS)
    /\ cascade_guard(contract.status)

review_document(actor, document_id, update_status, update_notes) ==
    LET dep == Depends(actor, "admin")
        docs == [documents EXCEPT ![document_id] =
                    review_write(@, actor, update_status, update_notes)]
        cid == documents[document_id].contract_id
        has_contract == cid \in DOMAIN contracts
        contract == [id |-> cid, status |-> contracts[cid].status]
        collaborator == contracts[cid].collaborator_id
        advance == has_contract /\ cascade(docs, contract, update_status)
    IN  IF dep # 0 THEN Fail("review_document", dep)
        ELSE IF update_status \notin DocumentStatus \cup {Unset, None}
             THEN Fail("review_document", 422)
        ELSE IF document_id \notin DOMAIN documents
             THEN Fail("review_document", 404)
        ELSE /\ documents' = docs
             /\ contracts' = IF advance
                             THEN [contracts EXCEPT ![cid].status = "pending_approval"]
                             ELSE contracts
             /\ Reply("review_document", 200,
                      IF has_contract
                      THEN <<Notification(collaborator, "document_reviewed")>>
                      ELSE <<>>,
                      <<AuditLog(actor, "review_document", "document", document_id)>>,
                      (IF has_contract /\ collaborator \in DOMAIN users
                          /\ update_status = "rejected"
                       THEN <<Email(collaborator, "document_rejected")>> ELSE <<>>)
                      \o (IF advance /\ collaborator \in DOMAIN users
                          THEN <<Email(collaborator, "documents_complete")>>
                          ELSE <<>>))
             /\ UNCHANGED <<users, payments, inflight>>

-----------------------------------------------------------------------------
(* Payments ("cuentas de cobro") *)

MaxPayments == 1

PaymentIds == 1..MaxPayments

NewPaymentId == CHOOSE id \in PaymentIds \ DOMAIN payments :
                    \A other \in PaymentIds \ DOMAIN payments : id <= other

(* The collaborator of the contract a payment belongs to. *)
PaymentCollaborator(payment_id) ==
    contracts[payments[payment_id].contract_id].collaborator_id

(* POST /api/payments *)
create_payment(actor, contract_id) ==
    LET dep == Depends(actor, None)
    IN  IF dep # 0 THEN Fail("create_payment", dep)
        ELSE IF contract_id \notin DOMAIN contracts THEN Fail("create_payment", 404)
        ELSE IF IsForeignCollaborator(actor, contracts[contract_id])
             THEN Fail("create_payment", 403)
        ELSE /\ PaymentIds \ DOMAIN payments # {}
             /\ payments' = payments @@
                    (NewPaymentId :> [contract_id |-> contract_id,
                                      status |-> "draft",
                                      bill_file_id |-> None,
                                      voucher_file_id |-> None,
                                      approved_by |-> None,
                                      rejected_by |-> None,
                                      rejection_reason |-> None,
                                      confirmed_by |-> None])
             /\ Reply("create_payment", 201,
                      <<>>,
                      <<AuditLog(actor, "create_payment", "payment", NewPaymentId)>>,
                      <<>>)
             /\ UNCHANGED <<users, contracts, documents, inflight>>

(* POST /api/payments/{payment_id}/upload-bill: no check of the payment's
   status precedes the update. *)
upload_bill_patch_clear_reason(payment, stored) ==
    [payment EXCEPT !.status = "pending_approval", !.bill_file_id = stored,
                    !.rejection_reason = None]

upload_bill_patch(payment, stored) ==
    [payment EXCEPT !.status = "pending_approval", !.bill_file_id = stored]

upload_bill(actor, payment_id, file, stored) ==
    LET dep == Depends(actor, None)
    IN  IF dep # 0 THEN Fail("upload_bill", dep)
        ELSE IF file = "missing" THEN Fail("upload_bill", 422)
        ELSE IF payment_id \notin DOMAIN payments THEN Fail("upload_bill", 404)
        ELSE IF IsForeignCollaborator(actor, contracts[payments[payment_id].contract_id])
             THEN Fail("upload_bill", 403)
        ELSE IF upload_failed(stored) THEN Fail("upload_bill", 500)
        ELSE /\ payments' = [payments EXCEPT ![payment_id] =
                                upload_bill_patch(@, stored)]
             /\ Reply("upload_bill", 200,
                      NotifyRole("accountant", "payment_approval_needed"),
                      <<AuditLog(actor, "upload_bill", "payment", payment_id)>>,
                      EmailRole("accountant", "payment_approval_needed"))
             /\ UNCHANGED <<users, contracts, documents, inflight>>

(* POST /api/payments/{payment_id}/approve *)
approve_payment_guard_not_draft(status) == status # "draft"

approve_payment_guard(status) == status = "pending_approval"

approve_payment_patch(payment, actor) ==
    [payment EXCEPT !.status = "approved", !.approved_by = actor]

approve_payment(actor, payment_id) ==
    LET dep == Depends(actor, "accountant")
    IN  IF dep # 0 THEN Fail("approve_payment", dep)
        ELSE IF payment_id \notin DOMAIN payments THEN Fail("approve_payment", 404)
        ELSE IF ~approve_payment_guard(payments[payment_id].status)
             THEN Fail("approve_payment", 400)
        ELSE /\ payments' = [payments EXCEPT ![payment_id] =
                                approve_payment_patch(@, actor)]
             /\ Reply("approve_payment", 200,
                      <<Notification(PaymentCollaborator(payment_id),
                                     "payment_approved")>>,
                      <<AuditLog(actor, "approve_payment", "payment", payment_id)>>,
                      <<Email(PaymentCollaborator(payment_id), "payment_approved")>>)
             /\ UNCHANGED <<users, contracts, documents, inflight>>

(* POST /api/payments/{payment_id}/reject; rejection_reason is a required  *)
(* query parameter of type str: Unset when the request leaves it out.      *)
reject_payment_guard(status) == status = "pending_approval"

reject_payment_patch(payment, actor, rejection_reason) ==
    [payment EXCEPT !.status = "rejected",
                    !.rejection_reason = rejection_reason,
                    !.rejected_by = actor]

reject_payment(actor, payment_id, rejection_reason) ==
    LET dep == Depends(actor, "accountant")
    IN  IF dep # 0 THEN Fail("reject_payment", dep)
        ELSE IF rejection_reason = Unset THEN Fail("reject_payment", 422)
        ELSE IF payment_id \notin DOMAIN payments THEN Fail("reject_payment", 404)
        ELSE IF ~reject_payment_guard(payments[payment_id].status)
             THEN Fail("reject_payment", 400)
        ELSE /\ payments' = [payments EXCEPT ![payment_id] =
                                reject_payment_patch(@, actor, rejection_reason)]
             /\ Reply("reject_payment", 200,
                      <<Notification(PaymentCollaborator(payment_id),
                                     "payment_rejected")>>,
                      <<AuditLog(actor, "reject_payment", "payment", payment_id)>>,
                      <<Email(PaymentCollaborator(payment_id), "payment_rejected")>>)
             /\ UNCHANGED <<users, contracts, documents, inflight>>

(* POST /api/payments/{payment_id}/confirm *)
confirm_payment_guard_decided(status) == status \in {"approved", "rejected"}

confirm_payment_guard(status) == status = "approved"

confirm_payment_patch(payment, actor, stored) ==
    [payment EXCEPT !.status = "paid",
                    !.voucher_file_id = stored,
                    !.confirmed_by = actor]

confirm_payment(actor, payment_id, file, stored) ==
    LET dep == Depends(actor, "accountant")
    IN  IF dep # 0 THEN Fail("confirm_payment", dep)
        ELSE IF file = "missing" THEN Fail("confirm_payment", 422)
        ELSE IF payment_id \notin DOMAIN payments THEN Fail("confirm_payment", 404)
        ELSE IF ~confirm_payment_guard(payments[payment_id].status)
             THEN Fail("confirm_payment", 400)
        ELSE IF upload_failed(stored) THEN Fail("confirm_payment", 500)
        ELSE /\ payments' = [payments EXCEPT ![payment_id] =
                                confirm_payment_patch(@, actor, stored)]
             /\ Reply("confirm_payment", 200,
                      <<Notification(PaymentCollaborator(payment_id),
                                     "payment_confirmed")>>,
                      <<AuditLog(actor, "confirm_payment", "payment", payment_id)>>,
                      <<Email(PaymentCollaborator(payment_id), "payment_confirmed")>>)
             /\ UNCHANGED <<users, contracts, documents, inflight>>

-----------------------------------------------------------------------------
(* Initial state: the seeded users, empty collections, no call answered. *)

(* PUT /api/notifications/{notification_id}/read.  A notification is named
   by its position in db.notifications.  update_one({"user_id": ...}) writes
   the first record that matches its filter, if there is one. *)
update_one(collection, user_id) ==
    LET matched == {i \in 1..Len(collection) : collection[i].user_id = user_id}
    IN  IF matched = {} THEN collection
        ELSE [collection EXCEPT
                 ![CHOOSE i \in matched : \A j \in matched : i <= j].read = TRUE]

mark_notification_read(actor, notification_id) ==
    LET dep == Depends(actor, None)
    IN  IF dep # 0 THEN Fail("mark_notification_read", dep)
        ELSE /\ db_notifications' = update_one(db_notifications, actor)
             /\ response' = Response("mark_notification_read", 200)
             /\ new_notifications' = <<>>
             /\ new_audit_logs' = <<>>
             /\ sent_emails' = <<>>
             /\ UNCHANGED <<entities, inflight, degraded>>

-----------------------------------------------------------------------------
Init ==
    /\ users = SeedUsers
    /\ contracts = <<>>
    /\ documents = <<>>
    /\ payments = <<>>
    /\ new_notifications = <<>>
    /\ new_audit_logs = <<>>
    /\ sent_emails = <<>>
    /\ response = Response(None, 0)
    /\ inflight = <<>>
    /\ degraded = {}
    /\ db_notifications = <<>>

-----------------------------------------------------------------------------
(* Inputs of the calls *)

FileIds == {"f1", "f2"}
Files == {"missing", "present"}
Stored == FileIds \cup {None}
Collaborators == {"co1", "co2"}

(* Request bodies of update_contract: with or without notes, with or
   without fields that ContractUpdate does not declare. *)
ContractUpdates ==
    [notes : {Unset, "renewed"}, status : {Unset, "active"},
     collaborator_id : {Unset, "co2"}]

(* Contract lifecycle: every actor on the contract operations; the        *)
(* documents are uploaded by the collaborators and not reviewed.           *)
NextContract ==
    \/ \E actor \in UserIds, collaborator_id \in Collaborators \cup {"ad"} :
          create_contract(actor, collaborator_id)
    \/ \E actor \in Collaborators, contract_id \in ContractIds,
          document_type \in REQUIRED_DOCUMENTS :
          upload_contract_document(actor, contract_id, document_type, "present", "f1")
    \/ \E actor \in UserIds, contract_id \in ContractIds :
          review_contract(actor, contract_id)
    \/ \E actor \in UserIds, contract_id \in ContractIds,
          file \in Files, stored \in Stored :
          approve_contract(actor, contract_id, file, stored)
    \/ \E actor \in UserIds, contract_id \in ContractIds,
          file \in Files, stored \in Stored :
          upload_signed_contract(actor, contract_id, file, stored)
    \/ \E actor \in {"lr", "co1"}, contract_id \in ContractIds,
          body \in ContractUpdates :
          update_contract(actor, contract_id, body)

SpecContract == Init /\ [][NextContract]_vars

(* Notifications: a contract is created for a collaborator, who uploads a
   document; collaborators, staff and an unknown user mark notifications
   as read. *)
NextNotifications ==
    \/ \E collaborator_id \in Collaborators : create_contract("lr", collaborator_id)
    \/ \E actor \in Collaborators, contract_id \in ContractIds,
          document_type \in {"cedula", "rut"} :
          upload_contract_document(actor, contract_id, document_type, "present", "f1")
    \/ \E actor \in Collaborators \cup {"ad", "lr", "co3"},
          notification_id \in 1..MaxNotifications :
          mark_notification_read(actor, notification_id)

SpecNotifications == Init /\ [][NextNotifications]_vars

(* Document workflow of one contract: uploads of the required types and of *)
(* an optional one, reviews by the administrator.                          *)
ExistingDocuments == IF DOMAIN documents = {} THEN {<<1, "cedula", 1>>}
                     ELSE DOMAIN documents

Reviews == {<<"approved", None>>, <<"rejected", "illegible">>}

NextDocs ==
    \/ \E actor \in {"lr"}, collaborator_id \in {"co1"} :
          create_contract(actor, collaborator_id)
    \/ \E actor \in {"co1"}, contract_id \in ContractIds,
          document_type \in REQUIRED_DOCUMENTS \cup {"soportes_laborales"} :
          upload_contract_document(actor, contract_id, document_type, "present", "f1")
    \/ \E actor \in {"ad"}, document_id \in ExistingDocuments, review \in Reviews :
          review_document(actor, document_id, review[1], review[2])

SpecDocs == Init /\ [][NextDocs]_vars

(* Every role-gated operation called by every user, on one contract with one
   document type and one payment. *)
Next ==
    \/ \E actor \in UserIds : create_contract(actor, "co1")
    \/ \E contract_id \in ContractIds :
          upload_contract_document("co1", contract_id, "cedula", "present", "f1")
    \/ \E actor \in UserIds, document_id \in ExistingDocuments, review \in Reviews :
          review_document(actor, document_id, review[1], review[2])
    \/ \E actor \in UserIds, contract_id \in ContractIds :
          review_contract(actor, contract_id)
    \/ \E actor \in UserIds, contract_id \in ContractIds :
          approve_contract(actor, contract_id, "present", "f1")
    \/ \E contract_id \in ContractIds : create_payment("co1", contract_id)
    \/ \E payment_id \in PaymentIds : upload_bill("co1", payment_id, "present", "f1")
    \/ \E actor \in UserIds, payment_id \in PaymentIds :
          approve_payment(actor, payment_id)
    \/ \E actor \in UserIds, payment_id \in PaymentIds :
          reject_payment(actor, payment_id, "IVA missing")
    \/ \E actor \in UserIds, payment_id \in PaymentIds :
          confirm_payment(actor, payment_id, "present", "f2")

Spec == Init /\ [][Next]_vars

(* Payment workflow of one contract: the owning collaborator, another
   collaborator and the staff on every payment operation. *)
Reasons == {"", "IVA missing", "wrong amount"}

Payers == {"ac", "ad"}

NextPayments ==
    \/ \E actor \in {"lr"}, collaborator_id \in {"co1"} :
          create_contract(actor, collaborator_id)
    \/ \E actor \in Collaborators \cup {"ac"}, contract_id \in ContractIds :
          create_payment(actor, contract_id)
    \/ \E actor \in Collaborators, payment_id \in PaymentIds,
          file \in Files, stored \in Stored :
          upload_bill(actor, payment_id, file, stored)
    \/ \E actor \in Payers, payment_id \in PaymentIds :
          approve_payment(actor, payment_id)
    \/ \E actor \in Payers, payment_id \in PaymentIds,
          rejection_reason \in Reasons \cup {Unset} :
          reject_payment(actor, payment_id, rejection_reason)
    \/ \E actor \in Payers, payment_id \in PaymentIds,
          file \in Files, stored \in Stored :
          confirm_payment(actor, payment_id, file, stored)

SpecPayments == Init /\ [][NextPayments]_vars

(* User administration: registrations, updates and soft deletes of users,
   and the creation of a contract for each of them. *)
NewUsers == {"nu"}

NewRoles == {"collaborator", "admin", "superadmin"}

NextUsers ==
    \/ \E email \in NewUsers \cup {"co1"}, role \in NewRoles,
          is_active \in {<<>>, <<FALSE>>} :
          register(email, role, is_active)
    \/ \E actor \in {"sa", "ad", "lr"}, email \in NewUsers \cup {"co1"},
          role \in NewRoles \cup {"guest"} :
          create_user(actor, email, role)
    \/ \E email \in NewUsers \cup {"co1"}, password \in {"secret", "wrong"} :
          login(email, password)
    \/ \E actor \in NewUsers \cup {"ad", "lr"}, user_id \in NewUsers \cup {"co1", "co3"},
          is_active \in {<<>>, <<TRUE>>, <<FALSE>>} :
          update_user(actor, user_id, is_active)
    \/ \E actor \in {"sa", "ad"}, user_id \in Collaborators \cup {"sa", "co3"} :
          delete_user(actor, user_id)
    \/ \E actor \in {"lr", "co1"},
          collaborator_id \in NewUsers \cup Collaborators \cup {"ad", "co3"} :
          create_contract(actor, collaborator_id)

SpecUsers == Init /\ [][NextUsers]_vars

-----------------------------------------------------------------------------
(* Interleaved calls.  The handlers are coroutines: every await on the     *)
(* database or on the storage service is a point where another request may *)
(* run.  inflight maps a call to its frame: the handler's local variables  *)
(* and the await it is suspended at (pc); an answered call keeps its       *)
(* status code in the frame until the slot serves another request.         *)

MaxCalls == 2

Calls == 1..MaxCalls

Frame(op, actor, contract_id) ==
    [op |-> op, actor |-> actor, contract_id |-> contract_id, pc |-> "begin",
     document_type |-> None, contract_status |-> None, existing_doc |-> None,
     stored |-> None, doc_id |-> None, code |-> 0,
     payment_id |-> None, rejection_reason |-> None,
     update_status |-> None, update_notes |-> None, advanced |-> FALSE]

(* The frame of an answered call: what the request was and how it ended. *)
Answered(frame, code) ==
    [Frame(frame.op, frame.actor, frame.contract_id) EXCEPT
        !.pc = "done", !.stored = frame.stored, !.code = code,
        !.payment_id = frame.payment_id, !.advanced = frame.advanced]

Free(call) == IF call \in DOMAIN inflight THEN inflight[call].pc = "done" ELSE TRUE

At(call, op, pc) ==
    IF call \in DOMAIN inflight
    THEN inflight[call].op = op /\ inflight[call].pc = pc
    ELSE FALSE

(* The call is suspended at its next await. *)
Await(call, frame) ==
    /\ inflight' = (call :> frame) @@ inflight
    /\ UNCHANGED <<response, new_notifications, new_audit_logs, sent_emails,
                   degraded, db_notifications>>

(* The call raised HTTPException. *)
Raise(call, frame, code) ==
    /\ inflight' = (call :> Answered(frame, code)) @@ inflight
    /\ response' = Response(frame.op, code)
    /\ new_notifications' = <<>>
    /\ new_audit_logs' = <<>>
    /\ sent_emails' = <<>>
    /\ UNCHANGED <<entities, degraded, db_notifications>>

(* The call returned. *)
Return(call, code, notifications, audit_logs, emails) ==
    /\ inflight' = [inflight EXCEPT ![call] = Answered(@, code)]
    /\ Reply(inflight[call].op, code, notifications, audit_logs, emails)
    /\ UNCHANGED entities

(* await storage_service.upload_file(...): None when the storage failed. *)
upload_file(call, stored) ==
    /\ call \in DOMAIN inflight
    /\ inflight[call].pc = "upload_file"
    /\ IF upload_failed(stored)
       THEN Raise(call, inflight[call], 500)
       ELSE /\ Await(call, [inflight[call] EXCEPT !.stored = stored, !.pc = "write"])
            /\ UNCHANGED entities

(* upload_contract_document up to contract = await db.contracts.find_one. *)
upload_contract_document_begin(call, actor, contract_id, document_type, file) ==
    LET dep == Depends(actor, None)
        frame == [Frame("upload_contract_document", actor, contract_id) EXCEPT
                     !.document_type = document_type]
    IN  /\ Free(call)
        /\ UNCHANGED entities
        /\ IF dep # 0 THEN Raise(call, frame, dep)
           ELSE IF file = "missing" \/ document_type \notin DocumentType
                THEN Raise(call, frame, 422)
           ELSE IF contract_id \notin DOMAIN contracts THEN Raise(call, frame, 404)
           ELSE IF IsForeignCollaborator(actor, contracts[contract_id])
                THEN Raise(call, frame, 403)
           ELSE Await(call, [frame EXCEPT
                                !.contract_status = contracts[contract_id].status,
                                !.pc = "find_existing"])

(* existing_doc = await db.documents.find_one(...) *)
upload_contract_document_find(call) ==
    LET frame == inflight[call]
    IN  /\ At(call, "upload_contract_document", "find_existing")
        /\ Await(call, [frame EXCEPT
                           !.existing_doc = FindDocument(documents, frame.contract_id,
                                                         frame.document_type),
                           !.pc = "upload_file"])
        /\ UNCHANGED entities

(* await db.documents.update_one(...) or await db.documents.insert_one(...) *)
upload_contract_document_write(call) ==
    LET frame == inflight[call]
        new_id == NewDocumentId(frame.contract_id, frame.document_type)
        doc_id == IF frame.existing_doc # None THEN frame.existing_doc ELSE new_id
    IN  /\ At(call, "upload_contract_document", "write")
        /\ doc_id \in DocumentIds
        /\ documents' = upload_write(documents, frame.existing_doc, new_id,
                                     frame.contract_id, frame.document_type,
                                     frame.stored)
        /\ Await(call, [frame EXCEPT
                           !.doc_id = doc_id,
                           !.pc = IF frame.contract_status = "pending_documents"
                                  THEN "find_documents" ELSE "notify"])
        /\ UNCHANGED <<users, contracts, payments>>

(* docs = await db.documents.find(...); required_types.issubset(...) *)
upload_contract_document_check(call) ==
    /\ At(call, "upload_contract_document", "find_documents")
    /\ Await(call, [inflight[call] EXCEPT
                       !.pc = IF required_complete(documents,
                                                   inflight[call].contract_id)
                              THEN "update_contract" ELSE "notify"])
    /\ UNCHANGED entities

(* await db.contracts.update_one({"id": contract_id}, {"$set": {"status": ..}}) *)
upload_contract_document_advance(call) ==
    /\ At(call, "upload_contract_document", "update_contract")
    /\ contracts' = [contracts EXCEPT
                        ![inflight[call].contract_id].status = "under_review"]
    /\ Await(call, [inflight[call] EXCEPT !.pc = "notify"])
    /\ UNCHANGED <<users, documents, payments>>

(* The notifications to the admins, the audit record and the return. *)
upload_contract_document_return(call) ==
    /\ At(call, "upload_contract_document", "notify")
    /\ Return(call, 201,
              NotifyRole("admin", "document_uploaded"),
              <<AuditLog(inflight[call].actor, "upload_contract_document",
                         "document", inflight[call].doc_id)>>,
              <<>>)

(* approve_contract up to the status check on the contract it read. *)
approve_contract_begin(call, actor, contract_id, file) ==
    LET dep == Depends(actor, "legal_rep")
        frame == Frame("approve_contract", actor, contract_id)
    IN  /\ Free(call)
        /\ UNCHANGED entities
        /\ IF dep # 0 THEN Raise(call, frame, dep)
           ELSE IF file_required(file) THEN Raise(call, frame, 422)
           ELSE IF contract_id \notin DOMAIN contracts THEN Raise(call, frame, 404)
           ELSE IF ~approve_contract_guard(contracts[contract_id].status)
                THEN Raise(call, frame, 400)
           ELSE Await(call, [frame EXCEPT
                                !.contract_status = contracts[contract_id].status,
                                !.pc = "upload_file"])

(* await db.contracts.update_one({"id": contract_id}, {"$set": {...}}) *)
approve_contract_write(call) ==
    LET frame == inflight[call]
    IN  /\ At(call, "approve_contract", "write")
        /\ contracts' = [contracts EXCEPT ![frame.contract_id] =
                            approve_contract_patch(@, frame.actor, frame.stored)]
        /\ Await(call, [frame EXCEPT !.pc = "notify"])
        /\ UNCHANGED <<users, documents, payments>>

(* The notification and mail to the collaborator, the audit record, return. *)
approve_contract_return(call) ==
    LET frame == inflight[call]
        collaborator == contracts[frame.contract_id].collaborator_id
    IN  /\ At(call, "approve_contract", "notify")
        /\ Return(call, 200,
                  <<Notification(collaborator, "contract_approved")>>,
                  <<AuditLog(frame.actor, "approve_contract", "contract",
                             frame.contract_id)>>,
                  <<Email(collaborator, "contract_approved")>>)

(* review_contract up to the status check on the contract it read. *)
review_contract_begin(call, actor, contract_id) ==
    LET dep == Depends(actor, "admin")
        frame == Frame("review_contract", actor, contract_id)
    IN  /\ Free(call)
        /\ UNCHANGED entities
        /\ IF dep # 0 THEN Raise(call, frame, dep)
           ELSE IF contract_id \notin DOMAIN contracts THEN Raise(call, frame, 404)
           ELSE IF ~review_contract_guard(contracts[contract_id].status)
                THEN Raise(call, frame, 400)
           ELSE Await(call, [frame EXCEPT
                                !.contract_status = contracts[contract_id].status,
                                !.pc = "write"])

(* await db.contracts.update_one({"id": contract_id}, {"$set": {...}}) *)
review_contract_write(call) ==
    LET frame == inflight[call]
    IN  /\ At(call, "review_contract", "write")
        /\ contracts' = [contracts EXCEPT
                            ![frame.contract_id].status = "pending_approval"]
        /\ Await(call, [frame EXCEPT !.pc = "notify"])
        /\ UNCHANGED <<users, documents, payments>>

(* The notifications and mails to the legal representatives, the audit
   record, return. *)
review_contract_return(call) ==
    LET frame == inflight[call]
    IN  /\ At(call, "review_contract", "notify")
        /\ Return(call, 200,
                  NotifyRole("legal_rep", "contract_pending_approval"),
                  <<AuditLog(frame.actor, "review_contract", "contract",
                             frame.contract_id)>>,
                  EmailRole("legal_rep", "contract_pending_approval"))

(* upload_signed_contract up to the status check on the contract it read. *)
upload_signed_contract_begin(call, actor, contract_id, file) ==
    LET dep == Depends(actor, None)
        frame == Frame("upload_signed_contract", actor, contract_id)
    IN  /\ Free(call)
        /\ UNCHANGED entities
        /\ IF dep # 0 THEN Raise(call, frame, dep)
           ELSE IF file = "missing" THEN Raise(call, frame, 422)
           ELSE IF contract_id \notin DOMAIN contracts THEN Raise(call, frame, 404)
           ELSE IF IsForeignCollaborator(actor, contracts[contract_id])
                THEN Raise(call, frame, 403)
           ELSE IF ~upload_signed_guard(contracts[contract_id].status)
                THEN Raise(call, frame, 400)
           ELSE Await(call, [frame EXCEPT
                                !.contract_status = contracts[contract_id].status,
                                !.pc = "upload_file"])

(* await db.contracts.update_one({"id": contract_id}, {"$set": {...}}) *)
upload_signed_contract_write(call) ==
    LET frame == inflight[call]
    IN  /\ At(call, "upload_signed_contract", "write")
        /\ contracts' = [contracts EXCEPT
                            ![frame.contract_id].status = "active",
                            ![frame.contract_id].signed_file_id = frame.stored]
        /\ Await(call, [frame EXCEPT !.pc = "notify"])
        /\ UNCHANGED <<users, documents, payments>>

(* The audit record and the return. *)
upload_signed_contract_return(call) ==
    /\ At(call, "upload_signed_contract", "notify")
    /\ Return(call, 200,
              <<>>,
              <<AuditLog(inflight[call].actor, "upload_signed_contract",
                         "contract", inflight[call].contract_id)>>,
              <<>>)

(* review_document up to document = await db.documents.find_one. *)
review_document_begin(call, actor, document_id, update_status, update_notes) ==
    LET dep == Depends(actor, "admin")
        frame == [Frame("review_document", actor, None) EXCEPT
                     !.doc_id = document_id,
                     !.update_status = update_status,
                     !.update_notes = update_notes]
    IN  /\ Free(call)
        /\ UNCHANGED entities
        /\ IF dep # 0 THEN Raise(call, frame, dep)
           ELSE IF update_status \notin DocumentStatus \cup {Unset, None}
                THEN Raise(call, frame, 422)
           ELSE IF document_id \notin DOMAIN documents THEN Raise(call, frame, 404)
           ELSE Await(call, [frame EXCEPT
                                !.contract_id = documents[document_id].contract_id,
                                !.pc = "update_document"])

(* await db.documents.update_one({"id": document_id}, {"$set": update_data}) *)
review_document_write(call) ==
    LET frame == inflight[call]
    IN  /\ At(call, "review_document", "update_document")
        /\ documents' = [documents EXCEPT ![frame.doc_id] =
                            review_write(@, frame.actor, frame.update_status,
                                         frame.update_notes)]
        /\ Await(call, [frame EXCEPT !.pc = "find_contract"])
        /\ UNCHANGED <<users, contracts, payments>>

(* contract = await db.contracts.find_one(...), then the notification and
   the mail of a rejection. *)
review_document_contract(call) ==
    LET frame == inflight[call]
        has_contract == frame.contract_id \in DOMAIN contracts
    IN  /\ At(call, "review_document", "find_contract")
        /\ Await(call, [frame EXCEPT
                           !.contract_status =
                               IF has_contract
                               THEN contracts[frame.contract_id].status ELSE None,
                           !.pc = IF has_contract /\ frame.update_status = "approved"
                                  THEN "find_documents" ELSE "audit"])
        /\ UNCHANGED entities

(* docs = await db.documents.find(...), the count and the status check on
   the contract read before. *)
review_document_check(call) ==
    LET frame == inflight[call]
        contract == [id |-> frame.contract_id, status |-> frame.contract_status]
    IN  /\ At(call, "review_document", "find_documents")
        /\ Await(call, [frame EXCEPT
                           !.pc = IF cascade(documents, contract, frame.update_status)
                                  THEN "update_contract" ELSE "audit"])
        /\ UNCHANGED entities

(* await db.contracts.update_one(...) and the "Documentos Completos" mail. *)
review_document_advance(call) ==
    LET frame == inflight[call]
    IN  /\ At(call, "review_document", "update_contract")
        /\ contracts' = [contracts EXCEPT
                            ![frame.contract_id].status = "pending_approval"]
        /\ Await(call, [frame EXCEPT !.advanced = TRUE, !.pc = "audit"])
        /\ UNCHANGED <<users, documents, payments>>

(* The audit record and the return; the call's notification and mails. *)
review_document_return(call) ==
    LET frame == inflight[call]
        has_contract == frame.contract_status # None
        collaborator == contracts[frame.contract_id].collaborator_id
    IN  /\ At(call, "review_document", "audit")
        /\ Return(call, 200,
                  IF has_contract
                  THEN <<Notification(collaborator, "document_reviewed")>>
                  ELSE <<>>,
                  <<AuditLog(frame.actor, "review_document", "document",
                             frame.doc_id)>>,
                  (IF has_contract /\ collaborator \in DOMAIN users
                      /\ frame.update_status = "rejected"
                   THEN <<Email(collaborator, "document_rejected")>> ELSE <<>>)
                  \o (IF frame.advanced /\ collaborator \in DOMAIN users
                      THEN <<Email(collaborator, "documents_complete")>>
                      ELSE <<>>))

(* approve_payment, reject_payment and confirm_payment up to the status
   check on the payment they read. *)
approve_payment_begin(call, actor, payment_id) ==
    LET dep == Depends(actor, "accountant")
        frame == [Frame("approve_payment", actor, None) EXCEPT
                     !.payment_id = payment_id]
    IN  /\ Free(call)
        /\ UNCHANGED entities
        /\ IF dep # 0 THEN Raise(call, frame, dep)
           ELSE IF payment_id \notin DOMAIN payments THEN Raise(call, frame, 404)
           ELSE IF ~approve_payment_guard(payments[payment_id].status)
                THEN Raise(call, frame, 400)
           ELSE Await(call, [frame EXCEPT !.pc = "write"])

reject_payment_begin(call, actor, payment_id, rejection_reason) ==
    LET dep == Depends(actor, "accountant")
        frame == [Frame("reject_payment", actor, None) EXCEPT
                     !.payment_id = payment_id,
                     !.rejection_reason = rejection_reason]
    IN  /\ Free(call)
        /\ UNCHANGED entities
        /\ IF dep # 0 THEN Raise(call, frame, dep)
           ELSE IF rejection_reason = Unset THEN Raise(call, frame, 422)
           ELSE IF payment_id \notin DOMAIN payments THEN Raise(call, frame, 404)
           ELSE IF ~reject_payment_guard(payments[payment_id].status)
                THEN Raise(call, frame, 400)
           ELSE Await(call, [frame EXCEPT !.pc = "write"])

confirm_payment_begin(call, actor, payment_id, file) ==
    LET dep == Depends(actor, "accountant")
        frame == [Frame("confirm_payment", actor, None) EXCEPT
                     !.payment_id = payment_id]
    IN  /\ Free(call)
        /\ UNCHANGED entities
        /\ IF dep # 0 THEN Raise(call, frame, dep)
           ELSE IF file = "missing" THEN Raise(call, frame, 422)
           ELSE IF payment_id \notin DOMAIN payments THEN Raise(call, frame, 404)
           ELSE IF ~confirm_payment_guard(payments[payment_id].status)
                THEN Raise(call, frame, 400)
           ELSE Await(call, [frame EXCEPT !.pc = "upload_file"])

(* await db.payments.update_one({"id": payment_id}, {"$set": {...}}) *)
approve_payment_write(call) ==
    LET frame == inflight[call]
    IN  /\ At(call, "approve_payment", "write")
        /\ payments' = [payments EXCEPT ![frame.payment_id] =
                           approve_payment_patch(@, frame.actor)]
        /\ Await(call, [frame EXCEPT !.pc = "notify"])
        /\ UNCHANGED <<users, contracts, documents>>

reject_payment_write(call) ==
    LET frame == inflight[call]
    IN  /\ At(call, "reject_payment", "write")
        /\ payments' = [payments EXCEPT ![frame.payment_id] =
                           reject_payment_patch(@, frame.actor,
                                                frame.rejection_reason)]
        /\ Await(call, [frame EXCEPT !.pc = "notify"])
        /\ UNCHANGED <<users, contracts, documents>>

confirm_payment_write(call) ==
    LET frame == inflight[call]
    IN  /\ At(call, "confirm_payment", "write")
        /\ payments' = [payments EXCEPT ![frame.payment_id] =
                           confirm_payment_patch(@, frame.actor, frame.stored)]
        /\ Await(call, [frame EXCEPT !.pc = "notify"])
        /\ UNCHANGED <<users, contracts, documents>>

(* The notification and mail to the collaborator, the audit record, return. *)
PaymentEvent(op) ==
    CASE op = "approve_payment" -> "payment_approved"
      [] op = "reject_payment"  -> "payment_rejected"
      [] OTHER                  -> "payment_confirmed"

payment_return(call) ==
    LET frame == inflight[call]
    IN  /\ call \in DOMAIN inflight
        /\ frame.op \in {"approve_payment", "reject_payment", "confirm_payment"}
        /\ frame.pc = "notify"
        /\ Return(call, 200,
                  <<Notification(PaymentCollaborator(frame.payment_id),
                                 PaymentEvent(frame.op))>>,
                  <<AuditLog(frame.actor, frame.op, "payment", frame.payment_id)>>,
                  <<Email(PaymentCollaborator(frame.payment_id),
                          PaymentEvent(frame.op))>>)

(* The documents of contract 1 after sequential uploads of the given types. *)
UploadedDocuments(types) ==
    [d \in {<<1, t, 1>> : t \in types} |->
        [contract_id |-> 1, document_type |-> d[2], file_id |-> "f1",
         status |-> "uploaded", reviewed_by |-> None, review_notes |-> None]]

ContractOf(collaborator_id, status) ==
    [status |-> status, collaborator_id |-> collaborator_id, approved_by |-> None,
     contract_file_id |-> None, signed_file_id |-> None, notes |-> None]

(* A notification no one has read. *)
Notified(u, type) == [user_id |-> u, notification_type |-> type, read |-> FALSE]

(* db.notifications after create_contract for co1 and the uploads of
   FirstUploads, one after the other. *)
UploadHistory ==
    insert_one(<<Notified("co1", "contract_created")>>,
               NotifyRole("admin", "document_uploaded")
               \o NotifyRole("admin", "document_uploaded")
               \o NotifyRole("admin", "document_uploaded")
               \o NotifyRole("admin", "document_uploaded"))

(* Concurrent uploads.  They start where the collaborator has uploaded four
   of the six required documents one after the other; the two outstanding
   types are then uploaded by overlapping requests. *)
FirstUploads == {"cedula", "rut", "cert_bancaria", "antecedentes"}

LastUploads == REQUIRED_DOCUMENTS \ FirstUploads

InitUploads ==
    /\ users = SeedUsers
    /\ contracts = (1 :> ContractOf("co1", "pending_documents"))
    /\ documents = UploadedDocuments(FirstUploads)
    /\ payments = <<>>
    /\ new_notifications = NotifyRole("admin", "document_uploaded")
    /\ new_audit_logs = <<AuditLog("co1", "upload_contract_document", "document",
                                   <<1, "antecedentes", 1>>)>>
    /\ sent_emails = <<>>
    /\ response = Response("upload_contract_document", 201)
    /\ inflight = <<>>
    /\ degraded = {}
    /\ db_notifications = UploadHistory

NextUploads ==
    \/ \E call \in Calls, contract_id \in ContractIds, document_type \in LastUploads :
          upload_contract_document_begin(call, "co1", contract_id, document_type,
                                         "present")
    \/ \E call \in Calls : upload_contract_document_find(call)
    \/ \E call \in Calls, stored \in Stored : upload_file(call, stored)
    \/ \E call \in Calls : upload_contract_document_write(call)
    \/ \E call \in Calls : upload_contract_document_check(call)
    \/ \E call \in Calls : upload_contract_document_advance(call)
    \/ \E call \in Calls : upload_contract_document_return(call)

SpecUploads == InitUploads /\ [][NextUploads]_vars

(* Concurrent approvals and signatures.  They start where the administrator
   has just passed the contract, its six required documents uploaded, on to
   the legal representative (review_contract). *)
InitApprovals ==
    /\ users = SeedUsers
    /\ contracts = (1 :> ContractOf("co1", "pending_approval"))
    /\ documents = UploadedDocuments(REQUIRED_DOCUMENTS)
    /\ payments = <<>>
    /\ new_notifications = NotifyRole("legal_rep", "contract_pending_approval")
    /\ new_audit_logs = <<AuditLog("ad", "review_contract", "contract", 1)>>
    /\ sent_emails = EmailRole("legal_rep", "contract_pending_approval")
    /\ response = Response("review_contract", 200)
    /\ inflight = <<>>
    /\ degraded = {}
    /\ db_notifications = UploadHistory

Approvers == {"lr", "sa"}
Signers == {"co1", "ad"}

NextApprovals ==
    \/ \E call \in Calls, actor \in Approvers, contract_id \in ContractIds :
          approve_contract_begin(call, actor, contract_id, "present")
    \/ \E call \in Calls, stored \in Stored : upload_file(call, stored)
    \/ \E call \in Calls : approve_contract_write(call)
    \/ \E call \in Calls : approve_contract_return(call)
    \/ \E call \in Calls, actor \in Signers, contract_id \in ContractIds :
          upload_signed_contract_begin(call, actor, contract_id, "present")
    \/ \E call \in Calls : upload_signed_contract_write(call)
    \/ \E call \in Calls : upload_signed_contract_return(call)

SpecApprovals == InitApprovals /\ [][NextApprovals]_vars

(* Concurrent decisions on one payment.  They start where collaborator co1
   has created a payment on their contract and uploaded its bill. *)
PaymentOf(contract_id, status, bill_file_id) ==
    [contract_id |-> contract_id, status |-> status,
     bill_file_id |-> bill_file_id, voucher_file_id |-> None,
     approved_by |-> None, rejected_by |-> None,
     rejection_reason |-> None, confirmed_by |-> None]

InitDecisions ==
    /\ users = SeedUsers
    /\ contracts = (1 :> ContractOf("co1", "pending_documents"))
    /\ documents = <<>>
    /\ payments = (1 :> PaymentOf(1, "pending_approval", "f1"))
    /\ new_notifications = NotifyRole("accountant", "payment_approval_needed")
    /\ new_audit_logs = <<AuditLog("co1", "upload_bill", "payment", 1)>>
    /\ sent_emails = EmailRole("accountant", "payment_approval_needed")
    /\ response = Response("upload_bill", 200)
    /\ inflight = <<>>
    /\ degraded = {}
    /\ db_notifications = insert_one(<<Notified("co1", "contract_created")>>,
                                     NotifyRole("accountant", "payment_approval_needed"))

NextDecisions ==
    \/ \E call \in Calls, actor \in Payers, payment_id \in PaymentIds :
          approve_payment_begin(call, actor, payment_id)
    \/ \E call \in Calls : approve_payment_write(call)
    \/ \E call \in Calls, actor \in Payers, payment_id \in PaymentIds :
          reject_payment_begin(call, actor, payment_id, "IVA missing")
    \/ \E call \in Calls : reject_payment_write(call)
    \/ \E call \in Calls, actor \in Payers, payment_id \in PaymentIds :
          confirm_payment_begin(call, actor, payment_id, "present")
    \/ \E call \in Calls, stored \in Stored : upload_file(call, stored)
    \/ \E call \in Calls : confirm_payment_write(call)
    \/ \E call \in Calls : payment_return(call)

SpecDecisions == InitDecisions /\ [][NextDecisions]_vars

(* The documents of contract 1 after sequential uploads of the given types
   and sequential approvals, by the admin, of some of them. *)
ReviewedDocuments(types, approved) ==
    [d \in DOMAIN UploadedDocuments(types) |->
        IF d[2] \in approved
        THEN [UploadedDocuments(types)[d] EXCEPT !.status = "approved",
                                                !.reviewed_by = "ad"]
        ELSE UploadedDocuments(types)[d]]

(* Concurrent reviews.  They start where the six required documents are
   uploaded, the contract is under review and the admin has approved four
   documents; the two outstanding ones are reviewed by overlapping requests. *)
InitReviews ==
    /\ users = SeedUsers
    /\ contracts = (1 :> ContractOf("co1", "under_review"))
    /\ documents = ReviewedDocuments(REQUIRED_DOCUMENTS, FirstUploads)
    /\ payments = <<>>
    /\ new_notifications = <<Notification("co1", "document_reviewed")>>
    /\ new_audit_logs = <<AuditLog("ad", "review_document", "document",
                                   <<1, "antecedentes", 1>>)>>
    /\ sent_emails = <<>>
    /\ response = Response("review_document", 200)
    /\ inflight = <<>>
    /\ degraded = {}
    /\ db_notifications = UploadHistory

NextReviews ==
    \/ \E call \in Calls, document_type \in LastUploads, review \in Reviews :
          review_document_begin(call, "ad", <<1, document_type, 1>>,
                                review[1], review[2])
    \/ \E call \in Calls : review_document_write(call)
    \/ \E call \in Calls : review_document_contract(call)
    \/ \E call \in Calls : review_document_check(call)
    \/ \E call \in Calls : review_document_advance(call)
    \/ \E call \in Calls : review_document_return(call)

SpecReviews == InitReviews /\ [][NextReviews]_vars

(* Uploads overlapping reviews.  They start where five required documents
   are uploaded and approved and the contract still waits for the sixth;
   the collaborator uploads it and the admin reviews it. *)
LastDocument == "propuesta_trabajo"

InitCascade ==
    /\ users = SeedUsers
    /\ contracts = (1 :> ContractOf("co1", "pending_documents"))
    /\ documents = ReviewedDocuments(REQUIRED_DOCUMENTS \ {LastDocument},
                                     REQUIRED_DOCUMENTS)
    /\ payments = <<>>
    /\ new_notifications = <<Notification("co1", "document_reviewed")>>
    /\ new_audit_logs = <<AuditLog("ad", "review_document", "document",
                                   <<1, "hoja_vida", 1>>)>>
    /\ sent_emails = <<>>
    /\ response = Response("review_document", 200)
    /\ inflight = <<>>
    /\ degraded = {}
    /\ db_notifications = UploadHistory

NextCascade ==
    \/ \E call \in Calls, contract_id \in ContractIds :
          upload_contract_document_begin(call, "co1", contract_id, LastDocument,
                                         "present")
    \/ \E call \in Calls : upload_contract_document_find(call)
    \/ \E call \in Calls, stored \in Stored : upload_file(call, stored)
    \/ \E call \in Calls : upload_contract_document_write(call)
    \/ \E call \in Calls : upload_contract_document_check(call)
    \/ \E call \in Calls : upload_contract_document_advance(call)
    \/ \E call \in Calls : upload_contract_document_return(call)
    \/ \E call \in Calls, k \in 1..MaxDuplicates, review \in Reviews :
          review_document_begin(call, "ad", <<1, LastDocument, k>>,
                                review[1], review[2])
    \/ \E call \in Calls : review_document_write(call)
    \/ \E call \in Calls : review_document_contract(call)
    \/ \E call \in Calls : review_document_check(call)
    \/ \E call \in Calls : review_document_advance(call)
    \/ \E call \in Calls : review_document_return(call)

SpecCascade == InitCascade /\ [][NextCascade]_vars

(* The way of a contract from pending_documents to approved under
   overlapping requests.  They start where the collaborator has uploaded
   five required documents; the sixth is uploaded, the admin reviews the
   contract and the legal representative approves it. *)
InitForward ==
    /\ users = SeedUsers
    /\ contracts = (1 :> ContractOf("co1", "pending_documents"))
    /\ documents = UploadedDocuments(REQUIRED_DOCUMENTS \ {LastDocument})
    /\ payments = <<>>
    /\ new_notifications = NotifyRole("admin", "document_uploaded")
    /\ new_audit_logs = <<AuditLog("co1", "upload_contract_document", "document",
                                   <<1, "hoja_vida", 1>>)>>
    /\ sent_emails = <<>>
    /\ response = Response("upload_contract_document", 201)
    /\ inflight = <<>>
    /\ degraded = {}
    /\ db_notifications = UploadHistory

NextForward ==
    \/ \E call \in Calls, contract_id \in ContractIds :
          upload_contract_document_begin(call, "co1", contract_id, LastDocument,
                                         "present")
    \/ \E call \in Calls : upload_contract_document_find(call)
    \/ \E call \in Calls : upload_file(call, "f1")
    \/ \E call \in Calls : upload_contract_document_write(call)
    \/ \E call \in Calls : upload_contract_document_check(call)
    \/ \E call \in Calls : upload_contract_document_advance(call)
    \/ \E call \in Calls : upload_contract_document_return(call)
    \/ \E call \in Calls, contract_id \in ContractIds :
          review_contract_begin(call, "ad", contract_id)
    \/ \E call \in Calls : review_contract_write(call)
    \/ \E call \in Calls : review_contract_return(call)
    \/ \E call \in Calls, contract_id \in ContractIds :
          approve_contract_begin(call, "lr", contract_id, "present")
    \/ \E call \in Calls : approve_contract_write(call)
    \/ \E call \in Calls : approve_contract_return(call)

SpecForward == InitForward /\ [][NextForward]_vars

(* The whole workflow of one contract and one payment, call after call, by
   the users entitled to each operation: it starts with no contract, or
   where the collaborator has uploaded four of the six required documents.
   The storage fails or succeeds on every upload, and the review bodies
   carry every combination of a status and of notes. *)
InitWorkflow == Init \/ InitUploads

DocumentUpdates ==
    {<<update_status, update_notes>> :
        update_status \in {"approved", "rejected", "uploaded", Unset},
        update_notes \in {Unset, "", "illegible"}}

NextWorkflow ==
    \/ create_contract("lr", "co1")
    \/ \E contract_id \in ContractIds, document_type \in LastUploads,
          file \in Files, stored \in Stored :
          upload_contract_document("co1", contract_id, document_type, file, stored)
    \/ \E document_update \in DocumentUpdates :
          review_document("ad", <<1, "hoja_vida", 1>>,
                          document_update[1], document_update[2])
    \/ \E contract_id \in ContractIds : review_contract("ad", contract_id)
    \/ \E contract_id \in ContractIds, file \in Files, stored \in {"f1", None} :
          approve_contract("lr", contract_id, file, stored)
    \/ \E contract_id \in ContractIds, file \in Files, stored \in {"f2", None} :
          upload_signed_contract("co1", contract_id, file, stored)
    \/ \E contract_id \in ContractIds : create_payment("co1", contract_id)
    \/ \E payment_id \in PaymentIds, file \in Files, stored \in {"f1", None} :
          upload_bill("co1", payment_id, file, stored)
    \/ \E payment_id \in PaymentIds : approve_payment("ac", payment_id)
    \/ \E payment_id \in PaymentIds : reject_payment("ac", payment_id, "IVA missing")
    \/ \E payment_id \in PaymentIds, file \in Files, stored \in {"f2", None} :
          confirm_payment("ac", payment_id, file, stored)

SpecWorkflow == InitWorkflow /\ [][NextWorkflow]_vars

(* The workflow while the mail gateway and the audit collection fail and
   recover: send_email then returns False and AuditService.log swallows the
   exception of its insert. *)
Dependencies == {"email", "audit"}

dependency_fails(d) ==
    /\ d \notin degraded
    /\ degraded' = degraded \cup {d}
    /\ UNCHANGED <<entities, new_notifications, new_audit_logs, sent_emails,
                   response, inflight, db_notifications>>

dependency_recovers(d) ==
    /\ d \in degraded
    /\ degraded' = degraded \ {d}
    /\ UNCHANGED <<entities, new_notifications, new_audit_logs, sent_emails,
                   response, inflight, db_notifications>>

NextDegraded ==
    \/ \E d \in Dependencies : dependency_fails(d)
    \/ \E d \in Dependencies : dependency_recovers(d)
    \/ create_contract("lr", "co1")
    \/ \E contract_id \in ContractIds, document_type \in LastUploads :
          upload_contract_document("co1", contract_id, document_type,
                                   "present", "f1")
    \/ \E review \in Reviews :
          review_document("ad", <<1, "hoja_vida", 1>>, review[1], review[2])
    \/ \E contract_id \in ContractIds : review_contract("ad", contract_id)
    \/ \E contract_id \in ContractIds :
          approve_contract("lr", contract_id, "present", "f1")
    \/ \E contract_id \in ContractIds :
          upload_signed_contract("co1", contract_id, "present", "f2")
    \/ \E contract_id \in ContractIds : create_payment("co1", contract_id)
    \/ \E payment_id \in PaymentIds :
          upload_bill("co1", payment_id, "present", "f1")
    \/ \E payment_id \in PaymentIds : approve_payment("ac", payment_id)
    \/ \E payment_id \in PaymentIds : reject_payment("ac", payment_id, "IVA missing")
    \/ \E payment_id \in PaymentIds :
          confirm_payment("ac", payment_id, "present", "f2")

SpecDegraded == InitWorkflow /\ [][NextDegraded]_vars

-----------------------------------------------------------------------------
(* What a call left alone: no entity written, nothing inserted. *)
NothingWritten ==
    /\ UNCHANGED <<users, contracts, documents, payments>>
    /\ new_notifications' = <<>>
    /\ new_audit_logs' = <<>>
    /\ sent_emails' = <<>>

Authorized(actor, required_role) == Depends(actor, required_role) = 0

(* The roles that rank below each minimum role of C1. *)
BelowLegalRep == {"accountant", "collaborator"}
BelowAdmin == {"legal_rep", "accountant", "collaborator"}
BelowAccountant == {"collaborator"}

(* A step is a call of a role-gated operation by actor. *)
GatedCall(actor, below) ==
    /\ users[actor].role \in below
    /\ \/ /\ below = BelowLegalRep
          /\ \/ create_contract(actor, "co1")
             \/ \E contract_id \in ContractIds :
                   approve_contract(actor, contract_id, "present", "f1")
       \/ /\ below = BelowAdmin
          /\ \/ \E contract_id \in ContractIds : review_contract(actor, contract_id)
             \/ \E document_id \in ExistingDocuments, review \in Reviews :
                   review_document(actor, document_id, review[1], review[2])
       \/ /\ below = BelowAccountant
          /\ \E payment_id \in PaymentIds :
                \/ approve_payment(actor, payment_id)
                \/ reject_payment(actor, payment_id, "IVA missing")
                \/ confirm_payment(actor, payment_id, "present", "f2")

(* C1: a role-gated operation (create_contract, approve_contract: legal_rep;
   review_contract, review_document: admin; approve_payment, reject_payment,
   confirm_payment: accountant) called by a user whose role ranks below the
   minimum answers 403 and leaves every contract, document, payment,
   notification and audit record as it was. *)
C1_RoleGate ==
    [][\A actor \in UserIds, below \in {BelowLegalRep, BelowAdmin, BelowAccountant} :
         GatedCall(actor, below) =>
            /\ response'.code = 403
            /\ NothingWritten]_vars

(* A collaborator was refused the confirmation of an approved payment while
   a contract, a document and the payment exist. *)
C1_Witness ==
    /\ response = Response("confirm_payment", 403)
    /\ \E p \in DOMAIN payments : payments[p].status = "approved"
    /\ DOMAIN contracts # {}
    /\ DOMAIN documents # {}

(* C2: review_contract succeeds only on a contract whose status is exactly
   under_review and then sets it to pending_approval; an authorized call on
   a contract in any other status answers 400 and writes no contract,
   notification or audit record. *)
C2_ReviewContract ==
    [][\A actor \in UserIds, contract_id \in ContractIds :
         review_contract(actor, contract_id) =>
            /\ response'.code = 200 =>
                  /\ contract_id \in DOMAIN contracts
                  /\ contracts[contract_id].status = "under_review"
                  /\ contracts' = [contracts EXCEPT
                                      ![contract_id].status = "pending_approval"]
            /\ (/\ Authorized(actor, "admin")
                /\ contract_id \in DOMAIN contracts
                /\ contracts[contract_id].status # "under_review") =>
                  /\ response'.code = 400
                  /\ NothingWritten]_vars

(* The contract was just moved on by a review_contract call. *)
C2_Witness ==
    /\ response = Response("review_contract", 200)
    /\ \E c \in DOMAIN contracts : contracts[c].status = "pending_approval"

(* C3: approve_contract succeeds only on a contract whose status is exactly
   pending_approval and whose file was stored; the contract then is approved
   with approved_by the acting user and contract_file_id the stored file's
   id. An authorized call with a file on a contract in any other status
   answers 400 and leaves the contract unchanged. *)
C3_ApproveContract ==
    [][\A actor \in UserIds, contract_id \in ContractIds,
          file \in Files, stored \in Stored :
         approve_contract(actor, contract_id, file, stored) =>
            /\ response'.code = 200 =>
                  /\ contract_id \in DOMAIN contracts
                  /\ contracts[contract_id].status = "pending_approval"
                  /\ file = "present" /\ stored \in FileIds
                  /\ contracts' = [contracts EXCEPT
                                      ![contract_id].status = "approved",
                                      ![contract_id].approved_by = actor,
                                      ![contract_id].contract_file_id = stored]
            /\ (/\ Authorized(actor, "legal_rep")
                /\ file = "present"
                /\ contract_id \in DOMAIN contracts
                /\ contracts[contract_id].status # "pending_approval") =>
                  /\ response'.code = 400
                  /\ UNCHANGED contracts]_vars

(* The contract was just approved: approver and stored file are recorded. *)
C3_Witness ==
    /\ response = Response("approve_contract", 200)
    /\ \E c \in DOMAIN contracts :
          /\ contracts[c].status = "approved"
          /\ contracts[c].approved_by = "lr"
          /\ contracts[c].contract_file_id = "f2"

(* C4: an authorized approve_contract call without a file on a contract that
   is pending_approval answers 422; the contract stays pending_approval with
   approved_by and contract_file_id unset, no notification is created and no
   approve_contract audit record is appended. *)
C4_ApproveWithoutFile ==
    [][\A actor \in UserIds, contract_id \in ContractIds, stored \in Stored :
         (/\ approve_contract(actor, contract_id, "missing", stored)
          /\ Authorized(actor, "legal_rep")
          /\ contract_id \in DOMAIN contracts
          /\ contracts[contract_id].status = "pending_approval") =>
            /\ response'.code = 422
            /\ contracts'[contract_id].status = "pending_approval"
            /\ contracts'[contract_id].approved_by = None
            /\ contracts'[contract_id].contract_file_id = None
            /\ new_notifications' = <<>>
            /\ \A i \in 1..Len(new_audit_logs') :
                  new_audit_logs'[i].action # "approve_contract"]_vars

(* An approval without a file was refused on a contract awaiting approval. *)
C4_Witness ==
    /\ response = Response("approve_contract", 422)
    /\ \E c \in DOMAIN contracts : contracts[c].status = "pending_approval"

(* C5: upload_signed_contract succeeds only from status approved or
   pending_signature and only for the contract's own collaborator or a user
   of another role; the contract then is active with signed_file_id recorded.
   A collaborator who does not own the contract gets 403, any other actor on
   a contract in another status gets 400; both leave the contract unchanged. *)
C5_UploadSigned ==
    [][\A actor \in UserIds, contract_id \in ContractIds,
          file \in Files, stored \in Stored :
         upload_signed_contract(actor, contract_id, file, stored) =>
            /\ response'.code = 200 =>
                  /\ contract_id \in DOMAIN contracts
                  /\ contracts[contract_id].status \in {"approved", "pending_signature"}
                  /\ \/ users[actor].role # "collaborator"
                     \/ contracts[contract_id].collaborator_id = actor
                  /\ stored \in FileIds
                  /\ contracts' = [contracts EXCEPT
                                      ![contract_id].status = "active",
                                      ![contract_id].signed_file_id = stored]
            /\ (/\ file = "present"
                /\ contract_id \in DOMAIN contracts
                /\ users[actor].role = "collaborator"
                /\ contracts[contract_id].collaborator_id # actor) =>
                  /\ response'.code = 403
                  /\ UNCHANGED contracts
            /\ (/\ file = "present"
                /\ contract_id \in DOMAIN contracts
                /\ ~(users[actor].role = "collaborator"
                     /\ contracts[contract_id].collaborator_id # actor)
                /\ contracts[contract_id].status
                       \notin {"approved", "pending_signature"}) =>
                  /\ response'.code = 400
                  /\ UNCHANGED contracts]_vars

(* The signed contract was just uploaded: the contract is active. *)
C5_Witness ==
    /\ response = Response("upload_signed_contract", 200)
    /\ \E c \in DOMAIN contracts :
          /\ contracts[c].status = "active"
          /\ contracts[c].signed_file_id = "f1"
          /\ contracts[c].contract_file_id = "f2"

-----------------------------------------------------------------------------
(* Claims about the document workflow, checked under SpecDocs. *)

SixRequired == {"cedula", "rut", "cert_bancaria", "antecedentes", "hoja_vida",
                "propuesta_trabajo"}

(* Every one of the six required types has a document of the contract. *)
AllSixPresent(docs, c) ==
    \A t \in SixRequired : \E d \in DOMAIN docs : d[1] = c /\ d[2] = t

(* Every one of the six required types has an approved document. *)
AllSixApproved(docs, c) ==
    \A t \in SixRequired :
        \E d \in DOMAIN docs : d[1] = c /\ d[2] = t /\ docs[d].status = "approved"

CountEmails(emails, kind) ==
    Cardinality({i \in 1..Len(emails) : emails[i].kind = kind})

(* Notifications other than the per-review "document_reviewed" one. *)
CompletionNotifications(notifications) ==
    {i \in 1..Len(notifications) :
        notifications[i].notification_type # "document_reviewed"}

(* The document a successful upload or review wrote: the resource of its
   audit record. *)
WrittenDocument(audit_logs) == audit_logs[1].resource_id

(* C6: under sequential uploads a contract is pending_documents exactly while
   one of the six required types has no document, whatever the review status
   of the documents and whatever optional documents exist; the upload after
   which all six are present moves it to under_review, every other upload
   leaves the status as it is. *)
C6_PresenceCascade ==
    [][/\ \A c \in DOMAIN contracts' :
             contracts'[c].status = "pending_documents" <=> ~AllSixPresent(documents', c)
       /\ (response'.op = "upload_contract_document" /\ response'.code = 201) =>
             LET c == WrittenDocument(new_audit_logs')[1]
             IN  contracts'[c].status =
                    IF contracts[c].status = "pending_documents"
                       /\ AllSixPresent(documents', c)
                    THEN "under_review"
                    ELSE contracts[c].status]_vars

(* The upload that completed the six required types, one of them rejected and
   the optional document absent, has just moved the contract on. *)
C6_Witness ==
    /\ response = Response("upload_contract_document", 201)
    /\ \E c \in DOMAIN contracts :
          /\ contracts[c].status = "under_review"
          /\ AllSixPresent(documents, c)
          /\ \E d \in DOMAIN documents : documents[d].status = "rejected"
          /\ \E d \in DOMAIN documents : documents[d].status = "uploaded"
          /\ ~\E d \in DOMAIN documents : d[2] = "soportes_laborales"

(* C7: an approving review_document on a contract that is
   under_review leaves it under_review unless the six required types are then
   all approved, in which case it moves it to pending_approval; the call that
   moves it sends exactly one "documents complete" mail to the collaborator
   and the others send none; every such call inserts exactly one
   notification, the "document_reviewed" one, and no other; a contract that
   left under_review never returns to it. *)
C7_ApprovalCascade ==
    [][/\ \A c \in DOMAIN contracts :
             contracts[c].status = "pending_approval" =>
                contracts'[c].status = "pending_approval"
       /\ (response'.op = "review_document" /\ response'.code = 200) =>
             LET d == WrittenDocument(new_audit_logs')
                 c == d[1]
             IN  (documents'[d].status = "approved"
                  /\ contracts[c].status = "under_review") =>
                    /\ contracts'[c].status =
                           IF AllSixApproved(documents', c)
                           THEN "pending_approval" ELSE "under_review"
                    /\ CountEmails(sent_emails', "documents_complete") =
                           IF AllSixApproved(documents', c) THEN 1 ELSE 0
                    /\ new_notifications' =
                           <<Notification(contracts[c].collaborator_id,
                                          "document_reviewed")>>]_vars

(* The sixth approval has just moved the contract to pending_approval and
   sent the "documents complete" mail. *)
C7_Witness ==
    /\ response = Response("review_document", 200)
    /\ \E c \in DOMAIN contracts :
          /\ contracts[c].status = "pending_approval"
          /\ AllSixApproved(documents, c)
    /\ CountEmails(sent_emails, "documents_complete") = 1

(* C7, with a Notification record in place of the mail: the review that moves
   the contract to pending_approval creates exactly one "documents complete"
   Notification record. *)
C7_AsClaimed ==
    [][\A c \in DOMAIN contracts :
         (/\ response'.op = "review_document"
          /\ contracts[c].status = "under_review"
          /\ contracts'[c].status = "pending_approval") =>
            Cardinality(CompletionNotifications(new_notifications')) = 1]_vars

(* C8: once a contract has left under_review for pending_approval, an
   approving review_document of one of its documents leaves the contract as
   it is, sends no "documents complete" mail and inserts no notification but
   the "document_reviewed" one. *)
C8_CascadeOnce ==
    [][(response'.op = "review_document" /\ response'.code = 200) =>
         LET d == WrittenDocument(new_audit_logs')
         IN  (documents'[d].status = "approved"
              /\ contracts[d[1]].status = "pending_approval") =>
                /\ UNCHANGED contracts
                /\ CountEmails(sent_emails', "documents_complete") = 0
                /\ CompletionNotifications(new_notifications') = {}]_vars

(* A document was approved again after the cascade: all six are approved, the
   contract still is pending_approval and no mail went out. *)
C8_Witness ==
    /\ response = Response("review_document", 200)
    /\ \E c \in DOMAIN contracts :
          /\ contracts[c].status = "pending_approval"
          /\ AllSixApproved(documents, c)
    /\ sent_emails = <<>>

-----------------------------------------------------------------------------
(* Claims about interleaved calls. *)

(* C9: in every reachable state, also one reached by overlapping
   upload_contract_document calls for the same contract and document type,
   there is at most one document per (contract_id, document_type). *)
C9_UniqueDocuments ==
    \A d, e \in DOMAIN documents :
        (/\ documents[d].contract_id = documents[e].contract_id
         /\ documents[d].document_type = documents[e].document_type) => d = e

(* Two calls of the same transition on the same contract. *)
Conflicting(a, b) ==
    /\ a # b
    /\ inflight[a].op = inflight[b].op
    /\ inflight[a].op \in {"approve_contract", "upload_signed_contract"}
    /\ inflight[a].contract_id = inflight[b].contract_id

(* C10: of two conflicting transitions on the same contract (two
   approve_contract calls, two upload_signed_contract calls) at most one
   reports success. *)
C10_OneWinner ==
    \A a, b \in DOMAIN inflight :
        (/\ Conflicting(a, b)
         /\ inflight[a].pc = "done"
         /\ inflight[b].pc = "done") =>
            ~(inflight[a].code = 200 /\ inflight[b].code = 200)

-----------------------------------------------------------------------------
(* Claims about the payment workflow, checked under SpecPayments. *)

(* The actor may act on the payment: not a collaborator of another contract. *)
MayTouchPayment(actor, payment_id) ==
    \/ users[actor].role # "collaborator"
    \/ contracts[payments[payment_id].contract_id].collaborator_id = actor

(* C13: upload_bill succeeds only on a payment whose status is draft or
   rejected, and then sets pending_approval and the bill file; on a payment
   that is pending_approval, approved or paid it answers 400 and leaves the
   payment unchanged. *)
C13_UploadBillGuard ==
    [][\A actor \in Collaborators, payment_id \in PaymentIds,
          file \in Files, stored \in Stored :
         upload_bill(actor, payment_id, file, stored) =>
            /\ response'.code = 200 =>
                  /\ payments[payment_id].status \in {"draft", "rejected"}
                  /\ payments'[payment_id].status = "pending_approval"
                  /\ payments'[payment_id].bill_file_id = stored
            /\ (/\ file = "present"
                /\ payment_id \in DOMAIN payments
                /\ MayTouchPayment(actor, payment_id)
                /\ payments[payment_id].status
                       \in {"pending_approval", "approved", "paid"}) =>
                  /\ response'.code = 400
                  /\ UNCHANGED payments]_vars

(* C14: approve_payment and reject_payment succeed only on a payment whose
   status is exactly pending_approval, setting approved with approved_by,
   respectively rejected with rejected_by; an authorized call on a payment in
   any other status answers 400 and on an unknown payment id 404, and leaves
   the payments unchanged. *)
C14_DecisionGuard ==
    [][\A actor \in Payers, payment_id \in PaymentIds :
         /\ approve_payment(actor, payment_id) =>
               /\ response'.code = 200 =>
                     /\ payment_id \in DOMAIN payments
                     /\ payments[payment_id].status = "pending_approval"
                     /\ payments' = [payments EXCEPT
                                        ![payment_id].status = "approved",
                                        ![payment_id].approved_by = actor]
               /\ response'.code = 404 <=> payment_id \notin DOMAIN payments
               /\ (/\ payment_id \in DOMAIN payments
                   /\ payments[payment_id].status # "pending_approval") =>
                     response'.code = 400
               /\ response'.code # 200 => UNCHANGED payments
         /\ \A rejection_reason \in Reasons :
               reject_payment(actor, payment_id, rejection_reason) =>
                  /\ response'.code = 200 =>
                        /\ payment_id \in DOMAIN payments
                        /\ payments[payment_id].status = "pending_approval"
                        /\ payments'[payment_id].status = "rejected"
                        /\ payments'[payment_id].rejected_by = actor
                  /\ response'.code = 404 <=> payment_id \notin DOMAIN payments
                  /\ (/\ payment_id \in DOMAIN payments
                      /\ payments[payment_id].status # "pending_approval") =>
                        response'.code = 400
                  /\ response'.code # 200 => UNCHANGED payments]_vars

(* A rejection was refused on a payment that is already paid. *)
C14_Witness ==
    /\ response = Response("reject_payment", 400)
    /\ \E p \in DOMAIN payments :
          /\ payments[p].status = "paid"
          /\ payments[p].approved_by \in Payers

(* C15: reject_payment with an empty reason answers 422 and the payment stays
   pending_approval; with a non-empty reason the payment's rejection_reason
   is the given reason and rejected_by the acting user. *)
C15_ReasonRequired ==
    [][\A actor \in Payers, payment_id \in PaymentIds :
         /\ (/\ reject_payment(actor, payment_id, "")
             /\ payment_id \in DOMAIN payments
             /\ payments[payment_id].status = "pending_approval") =>
               /\ response'.code = 422
               /\ payments'[payment_id].status = "pending_approval"
         /\ \A rejection_reason \in Reasons \ {""} :
               (/\ reject_payment(actor, payment_id, rejection_reason)
                /\ response'.code = 200) =>
                  /\ payments'[payment_id].rejection_reason = rejection_reason
                  /\ payments'[payment_id].rejected_by = actor]_vars

(* C16: confirm_payment succeeds only on a payment whose status is exactly
   approved and whose voucher was stored; the payment then is paid with
   voucher_file_id and confirmed_by recorded; an authorized call with a file
   on a payment in any other status answers 400 and leaves it unchanged. *)
C16_ConfirmPayment ==
    [][\A actor \in Payers, payment_id \in PaymentIds,
          file \in Files, stored \in Stored :
         confirm_payment(actor, payment_id, file, stored) =>
            /\ response'.code = 200 =>
                  /\ payment_id \in DOMAIN payments
                  /\ payments[payment_id].status = "approved"
                  /\ file = "present" /\ stored \in FileIds
                  /\ payments' = [payments EXCEPT
                                     ![payment_id].status = "paid",
                                     ![payment_id].voucher_file_id = stored,
                                     ![payment_id].confirmed_by = actor]
            /\ (/\ file = "present"
                /\ payment_id \in DOMAIN payments
                /\ payments[payment_id].status # "approved") =>
                  /\ response'.code = 400
                  /\ UNCHANGED payments
            /\ response'.code # 200 => UNCHANGED payments]_vars

(* The payment was just confirmed with its voucher. *)
C16_Witness ==
    /\ response = Response("confirm_payment", 200)
    /\ \E p \in DOMAIN payments :
          /\ payments[p].status = "paid"
          /\ payments[p].voucher_file_id = "f2"
          /\ payments[p].confirmed_by = "ad"

(* C17: a payment that has left pending_approval carries exactly one of
   approved_by and rejected_by, and no payment ever carries both. *)
C17_OneMarker ==
    \A p \in DOMAIN payments :
        LET approved == payments[p].approved_by # None
            rejected == payments[p].rejected_by # None
        IN  /\ payments[p].status \in {"approved", "rejected", "paid"} =>
                  approved # rejected
            /\ ~(approved /\ rejected)

(* C18: for every reason r, reject_payment(r) on a pending_approval payment
   followed by upload_bill returns the payment to pending_approval with
   rejection_reason still r, and approve_payment and then confirm_payment
   take it to approved and to paid, the reason kept. *)
C18_RoundTrip ==
    [][\A payment_id \in DOMAIN payments :
         LET payment == payments[payment_id]
             after == payments'[payment_id]
         IN  /\ \A actor \in Payers, rejection_reason \in Reasons :
                   (/\ reject_payment(actor, payment_id, rejection_reason)
                    /\ payment.status = "pending_approval") =>
                      /\ after.status = "rejected"
                      /\ after.rejection_reason = rejection_reason
             /\ \A stored \in FileIds :
                   (/\ upload_bill("co1", payment_id, "present", stored)
                    /\ payment.status = "rejected") =>
                      /\ response'.code = 200
                      /\ after.status = "pending_approval"
                      /\ after.rejection_reason = payment.rejection_reason
             /\ \A actor \in Payers :
                   (/\ approve_payment(actor, payment_id)
                    /\ payment.status = "pending_approval"
                    /\ payment.rejected_by # None) =>
                      /\ after.status = "approved"
                      /\ after.rejection_reason = payment.rejection_reason
             /\ \A actor \in Payers, stored \in FileIds :
                   (/\ confirm_payment(actor, payment_id, "present", stored)
                    /\ payment.status = "approved"
                    /\ payment.rejected_by # None) =>
                      /\ after.status = "paid"
                      /\ after.rejection_reason = payment.rejection_reason]_vars

(* The payment was rejected for "IVA missing", re-submitted, approved and has
   just been paid. *)
C18_Witness ==
    /\ response = Response("confirm_payment", 200)
    /\ \E p \in DOMAIN payments :
          /\ payments[p].status = "paid"
          /\ payments[p].rejection_reason = "IVA missing"
          /\ payments[p].rejected_by = "ac"

(* C20: create_payment creates a draft payment only if the contract exists
   (else 404) and, for a collaborator, only if the contract is the actor's
   own (else 403); a refused call creates no payment and no audit record. *)
C20_CreatePayment ==
    [][\A actor \in Collaborators \cup {"ac"}, contract_id \in ContractIds :
         create_payment(actor, contract_id) =>
            /\ contract_id \notin DOMAIN contracts =>
                  /\ response'.code = 404
                  /\ UNCHANGED payments
                  /\ new_audit_logs' = <<>>
            /\ (/\ contract_id \in DOMAIN contracts
                /\ users[actor].role = "collaborator"
                /\ contracts[contract_id].collaborator_id # actor) =>
                  /\ response'.code = 403
                  /\ UNCHANGED payments
                  /\ new_audit_logs' = <<>>
            /\ (/\ contract_id \in DOMAIN contracts
                /\ \/ users[actor].role # "collaborator"
                   \/ contracts[contract_id].collaborator_id = actor) =>
                  /\ response'.code = 201
                  /\ \E p \in DOMAIN payments' \ DOMAIN payments :
                        /\ DOMAIN payments' = DOMAIN payments \cup {p}
                        /\ payments'[p].status = "draft"
                        /\ payments'[p].contract_id = contract_id
                  /\ \A p \in DOMAIN payments : payments'[p] = payments[p]]_vars

(* A collaborator was refused a payment on another collaborator's contract. *)
C20_Witness ==
    /\ response = Response("create_payment", 403)
    /\ \E c \in DOMAIN contracts : contracts[c].collaborator_id = "co1"
    /\ payments = <<>>
    /\ new_audit_logs = <<>>

(* C19: of two overlapping decisions on one payment (approve_payment and
   reject_payment, or two of the same kind) at most one is answered 200, two
   overlapping confirm_payment calls are not both answered 200, and the
   payment never carries both approved_by and rejected_by. *)
Decisions == {"approve_payment", "reject_payment"}

SameStep(a, b) ==
    IF a.op \in Decisions THEN b.op \in Decisions
    ELSE a.op = "confirm_payment" /\ b.op = "confirm_payment"

C19_OneDecision ==
    /\ \A a, b \in DOMAIN inflight :
          (/\ a # b
           /\ inflight[a].pc = "done" /\ inflight[b].pc = "done"
           /\ SameStep(inflight[a], inflight[b])
           /\ inflight[a].payment_id = inflight[b].payment_id)
          => ~(inflight[a].code = 200 /\ inflight[b].code = 200)
    /\ \A p \in DOMAIN payments :
          ~(payments[p].approved_by # None /\ payments[p].rejected_by # None)

(* C11: of the review_document calls that overlap on one contract at most
   one moves the contract on to pending_approval and sends the "Documentos
   Completos" mail. *)
C11_AdvancedOnce ==
    \A a, b \in DOMAIN inflight :
        (/\ a # b
         /\ inflight[a].op = "review_document"
         /\ inflight[b].op = "review_document"
         /\ inflight[a].advanced
         /\ inflight[a].contract_id = inflight[b].contract_id)
        => ~inflight[b].advanced

(* C12: once every upload_contract_document and review_document call on the
   contract is answered, a contract whose six required types all have an
   approved document is no longer in pending_documents or under_review. *)
Quiescent == \A call \in DOMAIN inflight : inflight[call].pc = "done"

C12_NoLostCascade ==
    \A c \in DOMAIN contracts :
        (Quiescent /\ AllSixApproved(documents, c))
        => contracts[c].status \notin {"pending_documents", "under_review"}

(* C26: every call that changes a user, contract, document or payment
   appends exactly one audit record, which names the actor; a call that is
   refused appends none. *)
Success == {200, 201}

C26_AuditComplete ==
    [][/\ ~UNCHANGED entities =>
             /\ Len(new_audit_logs') = 1
             /\ new_audit_logs'[1].user_id \in DOMAIN users
       /\ response'.code \notin Success => new_audit_logs' = <<>>]_vars

(* C30: create_contract by an authorised actor answers 201 only if
   collaborator_id names an existing user with role collaborator whose
   account is active, and 404 otherwise, creating nothing; on success the new
   contract is pending_documents and exactly one notification, addressed to
   that collaborator, is created. *)
ActiveCollaborator(collaborator_id) ==
    /\ collaborator_id \in DOMAIN users
    /\ users[collaborator_id].role = "collaborator"
    /\ users[collaborator_id].is_active

C30_CreateContract ==
    [][\A actor \in {"lr", "co1"},
          collaborator_id \in NewUsers \cup Collaborators \cup {"ad", "co3"} :
         (create_contract(actor, collaborator_id) /\ Authorized(actor, "legal_rep")) =>
            IF ActiveCollaborator(collaborator_id)
            THEN /\ response'.code = 201
                 /\ \E c \in DOMAIN contracts' \ DOMAIN contracts :
                       /\ contracts'[c].status = "pending_documents"
                       /\ contracts'[c].collaborator_id = collaborator_id
                 /\ new_notifications' =
                       <<Notification(collaborator_id, "contract_created")>>
            ELSE /\ response'.code = 404
                 /\ NothingWritten]_vars

(* C21: every successful upload_contract_document leaves exactly one
   document of the (contract, type) pair, with status uploaded, reviewed_by
   and review_notes cleared and file_id the newly stored file, whatever the
   document's status was; the first upload of a pair creates the record, a
   later one keeps the set of records, and no other document changes. *)
C21_UploadResets ==
    [][\A contract_id \in ContractIds, document_type \in LastUploads,
          stored \in FileIds :
         (/\ upload_contract_document("co1", contract_id, document_type,
                                      "present", stored)
          /\ response'.code = 201) =>
            LET d == WrittenDocument(new_audit_logs')
            IN  /\ DocsOf(documents', contract_id, document_type) = {d}
                /\ documents'[d].status = "uploaded"
                /\ documents'[d].reviewed_by = None
                /\ documents'[d].review_notes = None
                /\ documents'[d].file_id = stored
                /\ IF DocsOf(documents, contract_id, document_type) = {}
                   THEN DOMAIN documents' = DOMAIN documents \cup {d}
                   ELSE DOMAIN documents' = DOMAIN documents
                /\ \A e \in DOMAIN documents \ {d} : documents'[e] = documents[e]]_vars

(* A reviewed document was uploaded again with another file: it is back to
   uploaded with no reviewer and no notes. *)
C21_Witness ==
    /\ response = Response("upload_contract_document", 201)
    /\ new_audit_logs # <<>>
    /\ LET d == WrittenDocument(new_audit_logs)
       IN  /\ d = <<1, "hoja_vida", 1>>
           /\ documents[d].file_id = "f2"
           /\ documents[d].status = "uploaded"
           /\ documents[d].reviewed_by = None
    /\ \E c \in DOMAIN contracts : contracts[c].status = "pending_approval"

(* C22: after every successful review_document the reviewed document is
   approved or rejected and its reviewed_by is the acting user. *)
C22_ReviewOutcome ==
    [][\A document_update \in DocumentUpdates :
         (/\ review_document("ad", <<1, "hoja_vida", 1>>,
                             document_update[1], document_update[2])
          /\ response'.code = 200) =>
            /\ documents'[<<1, "hoja_vida", 1>>].status \in {"approved", "rejected"}
            /\ documents'[<<1, "hoja_vida", 1>>].reviewed_by = "ad"]_vars

(* C23: a review_document that rejects without notes (absent or empty) is
   answered 422 and leaves the documents as they were, and a rejected
   document always carries a non-empty review note. *)
C23_RejectionReason ==
    [][/\ \A document_update \in DocumentUpdates :
             (/\ review_document("ad", <<1, "hoja_vida", 1>>,
                                 document_update[1], document_update[2])
              /\ <<1, "hoja_vida", 1>> \in DOMAIN documents
              /\ document_update[1] = "rejected"
              /\ document_update[2] \in {Unset, ""}) =>
                /\ response'.code = 422
                /\ UNCHANGED documents
       /\ \A d \in DOMAIN documents' :
             documents'[d].status = "rejected" =>
                documents'[d].review_notes \notin {None, ""}]_vars

(* C24: in upload_contract_document, approve_contract,
   upload_signed_contract, upload_bill and confirm_payment a failed file
   store fails the call and writes no status, file reference, notification
   or audit record; a call of these that succeeded wrote the id of a stored
   file. *)
StoreFailed(code) ==
    /\ code \notin Success
    /\ NothingWritten

C24_StoreFirst ==
    [][/\ \A contract_id \in ContractIds, document_type \in LastUploads :
             upload_contract_document("co1", contract_id, document_type,
                                      "present", None)
             => StoreFailed(response'.code)
       /\ \A contract_id \in ContractIds :
             approve_contract("lr", contract_id, "present", None)
             => StoreFailed(response'.code)
       /\ \A contract_id \in ContractIds :
             upload_signed_contract("co1", contract_id, "present", None)
             => StoreFailed(response'.code)
       /\ \A payment_id \in PaymentIds :
             upload_bill("co1", payment_id, "present", None)
             => StoreFailed(response'.code)
       /\ \A payment_id \in PaymentIds :
             confirm_payment("ac", payment_id, "present", None)
             => StoreFailed(response'.code)
       /\ \A d \in DOMAIN documents' : documents'[d].file_id \in FileIds
       /\ \A c \in DOMAIN contracts' :
             /\ contracts'[c].status \in {"approved", "active"}
                   => contracts'[c].contract_file_id \in FileIds
             /\ contracts'[c].status = "active"
                   => contracts'[c].signed_file_id \in FileIds
       /\ \A p \in DOMAIN payments' :
             /\ payments'[p].status \notin {"draft"}
                   => payments'[p].bill_file_id \in FileIds
             /\ payments'[p].status = "paid"
                   => payments'[p].voucher_file_id \in FileIds]_vars

(* The store failed under confirm_payment on an approved payment: the call
   was answered 500 and the payment is still approved, without a voucher. *)
C24_Witness ==
    /\ response = Response("confirm_payment", 500)
    /\ new_notifications = <<>>
    /\ new_audit_logs = <<>>
    /\ \E p \in DOMAIN payments :
          /\ payments[p].status = "approved"
          /\ payments[p].voucher_file_id = None

(* C27: a call that fails creates no notification; a successful
   create_contract, approve_contract, approve_payment, reject_payment or
   confirm_payment creates exactly one, addressed to the collaborator of the
   contract; a successful review_contract creates exactly one per legal_rep
   user and a successful upload_bill exactly one per accountant user. *)
OnePerUser(notifications, recipients) ==
    /\ Len(notifications) = Cardinality(recipients)
    /\ {notifications[i].user_id : i \in 1..Len(notifications)} = recipients

C27_NotifyOnce ==
    [][/\ response'.code \notin Success => new_notifications' = <<>>
       /\ (create_contract("lr", "co1") /\ response'.code = 201)
             => OnePerUser(new_notifications', {"co1"})
       /\ \A contract_id \in ContractIds :
             /\ (/\ approve_contract("lr", contract_id, "present", "f1")
                 /\ response'.code = 200)
                   => OnePerUser(new_notifications',
                                 {contracts[contract_id].collaborator_id})
             /\ (review_contract("ad", contract_id) /\ response'.code = 200)
                   => OnePerUser(new_notifications', UsersWithRole("legal_rep"))
       /\ \A payment_id \in PaymentIds :
             /\ (/\ \/ approve_payment("ac", payment_id)
                    \/ reject_payment("ac", payment_id, "IVA missing")
                    \/ confirm_payment("ac", payment_id, "present", "f2")
                 /\ response'.code = 200)
                   => OnePerUser(new_notifications',
                                 {PaymentCollaborator(payment_id)})
             /\ (/\ upload_bill("co1", payment_id, "present", "f1")
                 /\ response'.code = 200)
                   => OnePerUser(new_notifications', UsersWithRole("accountant"))]_vars

(* A payment was rejected: one notification, to the collaborator. *)
C27_Witness ==
    /\ response = Response("reject_payment", 200)
    /\ new_notifications = <<Notification("co1", "payment_rejected")>>
    /\ \E p \in DOMAIN payments : payments[p].status = "rejected"

(* C29: a contract that is approved or active has approved_by and
   contract_file_id set, and one that is active also has signed_file_id
   set. *)
C29_ApprovedHasFile ==
    \A c \in DOMAIN contracts :
        /\ contracts[c].status \in {"approved", "active"} =>
              /\ contracts[c].approved_by # None
              /\ contracts[c].contract_file_id # None
        /\ contracts[c].status = "active" => contracts[c].signed_file_id # None

(* The collaborator has uploaded the signed copy of an approved contract. *)
C29_Witness ==
    /\ response = Response("upload_signed_contract", 200)
    /\ \E c \in DOMAIN contracts :
          /\ contracts[c].status = "active"
          /\ contracts[c].approved_by = "lr"
          /\ contracts[c].contract_file_id = "f1"
          /\ contracts[c].signed_file_id = "f2"

(* C25: while the mail gateway or the audit collection fails, a call
   that changed an entity is answered with success and the entity has its
   new status: each workflow operation whose guards pass is answered 2xx
   and leaves the status it is meant to write. *)
C25_DegradedSucceeds ==
    [][degraded # {} =>
         /\ ~UNCHANGED entities => response'.code \in Success
         /\ (create_contract("lr", "co1") /\ contracts = <<>>) =>
               /\ response'.code = 201
               /\ \E c \in DOMAIN contracts' :
                     contracts'[c].status = "pending_documents"
         /\ \A contract_id \in DOMAIN contracts :
               /\ (/\ review_contract("ad", contract_id)
                   /\ contracts[contract_id].status = "under_review") =>
                     /\ response'.code = 200
                     /\ contracts'[contract_id].status = "pending_approval"
               /\ (/\ approve_contract("lr", contract_id, "present", "f1")
                   /\ contracts[contract_id].status = "pending_approval") =>
                     /\ response'.code = 200
                     /\ contracts'[contract_id].status = "approved"
               /\ (/\ upload_signed_contract("co1", contract_id, "present", "f2")
                   /\ contracts[contract_id].status = "approved") =>
                     /\ response'.code = 200
                     /\ contracts'[contract_id].status = "active"
               /\ \A document_type \in LastUploads :
                     upload_contract_document("co1", contract_id, document_type,
                                              "present", "f1") =>
                        /\ response'.code = 201
                        /\ \E d \in DocsOf(documents', contract_id, document_type) :
                              documents'[d].status = "uploaded"
               /\ create_payment("co1", contract_id) =>
                     /\ response'.code = 201
                     /\ \E p \in DOMAIN payments' : payments'[p].status = "draft"
         /\ \A review \in Reviews :
               (/\ review_document("ad", <<1, "hoja_vida", 1>>, review[1], review[2])
                /\ <<1, "hoja_vida", 1>> \in DOMAIN documents) =>
                  /\ response'.code = 200
                  /\ documents'[<<1, "hoja_vida", 1>>].status = review[1]
         /\ \A payment_id \in DOMAIN payments :
               /\ upload_bill("co1", payment_id, "present", "f1") =>
                     /\ response'.code = 200
                     /\ payments'[payment_id].status = "pending_approval"
               /\ (/\ approve_payment("ac", payment_id)
                   /\ payments[payment_id].status = "pending_approval") =>
                     /\ response'.code = 200
                     /\ payments'[payment_id].status = "approved"
               /\ (/\ reject_payment("ac", payment_id, "IVA missing")
                   /\ payments[payment_id].status = "pending_approval") =>
                     /\ response'.code = 200
                     /\ payments'[payment_id].status = "rejected"
               /\ (/\ confirm_payment("ac", payment_id, "present", "f2")
                   /\ payments[payment_id].status = "approved") =>
                     /\ response'.code = 200
                     /\ payments'[payment_id].status = "paid"]_vars

(* Both dependencies were down when the accountant approved a payment: the
   call was answered 200 and the payment is approved, with the notification
   inserted, no mail sent and no audit record written. *)
C25_Witness ==
    /\ degraded = Dependencies
    /\ response = Response("approve_payment", 200)
    /\ \E p \in DOMAIN payments : payments[p].status = "approved"
    /\ new_notifications = <<Notification("co1", "payment_approved")>>
    /\ new_audit_logs = <<>>
    /\ sent_emails = <<>>

(* C28: no step writes to a contract a status that comes earlier in
   pending_documents, under_review, pending_approval, approved, active than
   the status the contract has. *)
Rank(status) ==
    CASE status = "pending_documents" -> 1
      [] status = "under_review"      -> 2
      [] status = "pending_approval"  -> 3
      [] status = "approved"          -> 4
      [] status = "active"            -> 5
      [] OTHER                        -> 0

C28_ForwardOnly ==
    [][\A c \in DOMAIN contracts :
         Rank(contracts'[c].status) >= Rank(contracts[c].status)]_vars

(* C31: users are never removed from the collection, and a user's is_active
   flag goes from true to false only in a state where that user owns no
   contract whose status is pending_documents, under_review,
   pending_approval, approved or active. *)
C31_DeactivationSafe ==
    [][/\ DOMAIN users \subseteq DOMAIN users'
       /\ \A u \in DOMAIN users :
            (users[u].is_active /\ ~users'[u].is_active) => active_contracts(u) = 0]_vars

(* C32: has_permission(actor role, required role) is true exactly when the
   actor's role stands at or above the required role in the order
   collaborator < accountant < legal_rep < admin < superadmin, for all 25
   pairs of roles; the relation is reflexive, transitive and total, and the
   gate built on it answers every user of the collection accordingly. *)
RoleOrder == <<"collaborator", "accountant", "legal_rep", "admin", "superadmin">>

PositionOf(r) == CHOOSE i \in 1..Len(RoleOrder) : RoleOrder[i] = r

C32_HasPermission ==
    /\ \A a, r \in UserRole :
          has_permission(a, r) <=> PositionOf(a) >= PositionOf(r)
    /\ \A a \in UserRole : has_permission(a, a)
    /\ \A a, b, c \in UserRole :
          (has_permission(a, b) /\ has_permission(b, c)) => has_permission(a, c)
    /\ \A a, b \in UserRole : has_permission(a, b) \/ has_permission(b, a)
    /\ \A u \in DOMAIN users, r \in UserRole :
          require_role(u, r) <=> PositionOf(users[u].role) >= PositionOf(r)

(* The gate let the legal representative create a contract and has just
   refused the same operation to an accountant. *)
C32_Witness ==
    /\ response = Response("create_contract", 403)
    /\ DOMAIN contracts # {}
    /\ \E u \in DOMAIN users : ~require_role(u, "legal_rep")
    /\ \E u \in DOMAIN users : require_role(u, "superadmin")

(* C33: for every document set of a contract the completeness evaluation of
   get_contract_documents reports all_required_approved exactly when each of
   the six required types has an approved document, can_approve_contract
   equals all_required_approved, and documents of optional types do not
   influence either flag. *)
RequiredOnly(docs) ==
    [d \in {e \in DOMAIN docs : e[2] \in SixRequired} |-> docs[d]]

C33_Evaluator ==
    \A c \in DOMAIN contracts :
        /\ all_required_approved(documents, c) <=> AllSixApproved(documents, c)
        /\ can_approve_contract(documents, c) <=> all_required_approved(documents, c)
        /\ all_required_approved(documents, c)
              <=> all_required_approved(RequiredOnly(documents), c)

(* C34: a user record comes into existence only through create_user called
   by an authenticated actor of role admin or above, and a record with role
   superadmin only through create_user called by a superadmin. *)
C34_CreatedByAdmin ==
    [][\A u \in DOMAIN users' \ DOMAIN users :
         \E actor \in DOMAIN users :
            /\ create_user(actor, u, users'[u].role)
            /\ Authorized(actor, "admin")
            /\ users'[u].role = "superadmin" => users[actor].role = "superadmin"]_vars

(* C35: no step changes the collaborator_id of an existing contract or
   removes a contract; update_contract changes none of status,
   collaborator_id, approved_by, contract_file_id and signed_file_id,
   whatever fields its body carries; and a status changes only in a step of
   upload_contract_document, review_contract, approve_contract or
   upload_signed_contract (review_document is not part of this
   specification). *)
WorkflowFields ==
    {"status", "collaborator_id", "approved_by", "contract_file_id", "signed_file_id"}

C35_UpdateContractFrame ==
    [][\A c \in DOMAIN contracts :
         /\ c \in DOMAIN contracts'
         /\ contracts'[c].collaborator_id = contracts[c].collaborator_id
         /\ response'.op = "update_contract" =>
               \A f \in WorkflowFields : contracts'[c][f] = contracts[c][f]
         /\ contracts'[c].status # contracts[c].status =>
               response'.op \in {"upload_contract_document", "review_contract",
                                 "approve_contract", "upload_signed_contract"}]_vars

(* update_contract answered 200 for a body that carried notes, status and
   collaborator_id: the notes are written, the contract is still approved
   and still belongs to co1. *)
C35_Witness ==
    /\ response = Response("update_contract", 200)
    /\ \E c \in DOMAIN contracts :
          /\ contracts[c].notes = "renewed"
          /\ contracts[c].status = "approved"
          /\ contracts[c].collaborator_id = "co1"

(* C36: on every document set a step produces, the count of approved
   documents of required types reaches six exactly when the completeness
   evaluation of get_contract_documents reports all_required_approved; and
   whenever review_document advances a contract from under_review to
   pending_approval, the evaluation on the documents of that moment reports
   all_required_approved. *)
CascadeStep(c) ==
    /\ contracts[c].status = "under_review"
    /\ contracts'[c].status = "pending_approval"
    /\ \/ \E call \in DOMAIN inflight : review_document_advance(call)
       \/ response'.op = "review_document"

C36_CascadeAgrees ==
    [][\A c \in DOMAIN contracts' :
         /\ approved_required(documents', c) >= Cardinality(REQUIRED_DOCUMENTS)
               <=> all_required_approved(documents', c)
         /\ c \in DOMAIN contracts /\ CascadeStep(c) =>
               all_required_approved(documents', c)]_vars

(* C37: a contract enters pending_approval or approved only in a step after
   which can_approve_contract holds for it: every required type has an
   approved document. *)
C37_GatedByCompleteness ==
    [][\A c \in DOMAIN contracts :
         (/\ contracts'[c].status \in {"pending_approval", "approved"}
          /\ contracts'[c].status # contracts[c].status)
            => can_approve_contract(documents', c)]_vars

(* C38: after every step each payment's fields fit its status:
   pending_approval, approved, rejected or paid implies bill_file_id is set;
   approved or paid implies approved_by is set; rejected implies rejected_by
   and rejection_reason are set; paid implies voucher_file_id and
   confirmed_by are set; and a payment becomes paid only in a step that
   starts with it approved. *)
FieldsFitStatus(payment) ==
    /\ payment.status \in {"pending_approval", "approved", "rejected", "paid"} =>
          payment.bill_file_id # None
    /\ payment.status \in {"approved", "paid"} => payment.approved_by # None
    /\ payment.status = "rejected" =>
          payment.rejected_by # None /\ payment.rejection_reason # None
    /\ payment.status = "paid" =>
          payment.voucher_file_id # None /\ payment.confirmed_by # None

C38_PaymentConsistent ==
    [][/\ \A p \in DOMAIN payments' : FieldsFitStatus(payments'[p])
       /\ \A p \in DOMAIN payments :
            (payments'[p].status = "paid" /\ payments[p].status # "paid") =>
               payments[p].status = "approved"]_vars

(* C39: while a user's is_active flag is false, every operation called with
   that user's identity (update_user, delete_user, create_user,
   create_contract) and every login with that user's e-mail address, right
   password or wrong, answers 401 and leaves users, contracts, documents and
   payments as they were, with no notification, audit record or mail. *)
AttemptBy(u) ==
    \/ \E password \in {"secret", "wrong"} : login(u, password)
    \/ \E user_id \in NewUsers \cup {"co1", "co3"},
          is_active \in {<<>>, <<TRUE>>, <<FALSE>>} : update_user(u, user_id, is_active)
    \/ \E user_id \in Collaborators \cup {"sa", "co3"} : delete_user(u, user_id)
    \/ \E email \in NewUsers \cup {"co1"}, role \in NewRoles \cup {"guest"} :
          create_user(u, email, role)
    \/ \E collaborator_id \in NewUsers \cup Collaborators \cup {"ad", "co3"} :
          create_contract(u, collaborator_id)

C39_InactiveRejected ==
    [][\A u \in DOMAIN users :
         (~users[u].is_active /\ AttemptBy(u)) =>
            /\ response'.code = 401
            /\ NothingWritten]_vars

(* The deactivated collaborator co1, owner of a contract, has just been
   refused a login. *)
C39_Witness ==
    /\ response = Response("login", 401)
    /\ "co1" \in DOMAIN users /\ ~users["co1"].is_active
    /\ \E c \in DOMAIN contracts : contracts[c].collaborator_id = "co1"

(* C40: mark_notification_read(notification_id) by an authenticated user
   sets read on the notification named by notification_id when that
   notification belongs to the caller, and leaves every other notification,
   of the caller and of all other users, as it was. *)
C40_MarkReadFrame ==
    [][\A actor \in DOMAIN users, n \in 1..Len(db_notifications) :
         (mark_notification_read(actor, n) /\ Authorized(actor, None)) =>
            /\ db_notifications[n].user_id = actor => db_notifications'[n].read
            /\ \A m \in 1..Len(db_notifications) \ {n} :
                  db_notifications'[m] = db_notifications[m]]_vars

====
